---- MODULE Spec2Model ----
(***************************************************************************)
(* The lead store of Mini-Buyer-lead-Intake: the tables, triggers and      *)
(* row-level-security policies of the migration, and the client handlers   *)
(* that write to it.  Every request is one action; a request the store     *)
(* refuses leaves every table as it was.                                   *)
(***************************************************************************)
EXTENDS Integers, Sequences, FiniteSets, TLC

\* ---------------------------------------------------------------- bounds
MaxUsers == 2
MaxLeads == 1
MaxActs == 1
MaxTime == 2
MaxForms == 1
MaxRows == 2
MaxLen == 2
MaxListed == 11
MaxLine == 5
MaxTabs == 2

\* ------------------------------------------------------------ SQL values
\* SQL NULL in a uuid column (ids are 1, 2, ...) and what auth.uid() gives
\* for a request without a signed-in user.
NoId == 0
\* SQL NULL in an integer column.
NullInt == -1000
\* SQL NULL in a text or enum column.
NullText == "NULL"
\* SQL NULL in a text column kept as its characters, and in a text[] column.
NullChars == <<NullText>>
NullArray == <<NullChars>>

Ids == 1..MaxUsers
Callers == Ids \cup {NoId}
LeadIds == 1..MaxLeads
ActIds == 1..MaxActs

app_role == {"admin", "agent", "viewer"}
RoleValues == app_role \cup {NullText}

\* SQL's three truth values.
T3 == "true"
F3 == "false"
U3 == "unknown"

Eq3(a, b, null) == IF a = null \/ b = null THEN U3 ELSE IF a = b THEN T3 ELSE F3
Or3(x, y) == IF x = T3 \/ y = T3 THEN T3 ELSE IF x = F3 /\ y = F3 THEN F3 ELSE U3
And3(x, y) == IF x = F3 \/ y = F3 THEN F3 ELSE IF x = T3 /\ y = T3 THEN T3 ELSE U3
In3(a, S, null) == IF a = null THEN U3 ELSE IF a \in S THEN T3 ELSE F3
Le3(a, b, null) == IF a = null \/ b = null THEN U3 ELSE IF a <= b THEN T3 ELSE F3
\* A policy's USING / WITH CHECK lets a row through only when it is true.
Passes(x) == x = T3
\* A CHECK constraint rejects a row only when it is false.
NotFalse(x) == x # F3

\* Nothing has been downloaded, no notice is shown.
NothingDownloaded == [text |-> <<>>, leads |-> <<>>, user |-> NoId, toast |-> <<>>]

\* No line is being read.
NoLine == [line |-> <<>>, cells |-> <<>>, read |-> FALSE]

\* The leads page before it is opened.
ListClosed ==
    [user |-> NoId, currentPage |-> 1, totalPages |-> 1, searchTerm |-> <<>>,
     statusFilter |-> "all", sourceFilter |-> "all", rows |-> 0, toast |-> <<>>]

VARIABLES users, profiles, leads, activities, nextLead, nextAct, now,
          forms, importer, download, list, capacity, reader

\* The state of the client pages, the size of the run (how many leads and
\* activities the store takes, how many lead forms are open), which no
\* step changes, and a line as parseCsvLine reads it.
client == <<forms, importer, download, list, capacity, reader>>
vars == <<users, profiles, leads, activities, nextLead, nextAct, now,
          forms, importer, download, list, capacity, reader>>

\* ------------------------------------------------------- role resolution
\* SELECT role FROM profiles WHERE user_id = $1: the role of the matching
\* row, NULL when no row matches (a NULL argument matches none).
get_user_role(uid) ==
    LET rows == {p \in profiles : Passes(Eq3(p.user_id, uid, NoId))}
    IN IF rows = {} THEN NullText ELSE (CHOOSE p \in rows : TRUE).role

Given(payload, f, default) == IF f \in DOMAIN payload THEN payload[f] ELSE default

\* ------------------------------------------------------------- profiles
\* "Users can view all profiles"
ProfileSelectUsing(c, p) == T3
\* Variant: any caller may update any profile.
AnyoneUpdatesProfiles(c, p) == T3
\* "Users can update their own profile"
ProfileUpdateUsing(c, p) == Eq3(c, p.user_id, NoId)
\* No INSERT and no DELETE policy exists for profiles: with row level
\* security enabled nothing passes.
ProfileInsertCheck(c, p) == F3
ProfileDeleteUsing(c, p) == F3

CanSelectProfile(c, p) == Passes(ProfileSelectUsing(c, p))
CanUpdateProfile(c, p) == Passes(ProfileUpdateUsing(c, p))
CanInsertProfile(c, p) == Passes(ProfileInsertCheck(c, p))
CanDeleteProfile(c, p) == Passes(ProfileDeleteUsing(c, p))

\* Variant: no BEFORE UPDATE trigger, the row is written as the statement
\* built it.
KeepSuppliedTimestamp(new) == new
\* BEFORE UPDATE trigger of profiles and buyer_leads: NEW.updated_at = now().
\* now() is the clock as the request's transaction reads it.
update_updated_at_column(new) == [new EXCEPT !.updated_at = now]

\* Variant: the trigger stores the supplied name as it is, NULL included.
NewUserWithoutDefaultName(id, full_name) ==
    [user_id |-> id,
     full_name |-> full_name,
     role |-> "agent",
     created_at |-> now,
     updated_at |-> now]
\* The row handle_new_user inserts for the new auth.users row.
DefaultName == "User"
handle_new_user(id, full_name) ==
    [user_id |-> id,
     full_name |-> IF full_name = NullText THEN DefaultName ELSE full_name,
     role |-> "agent",
     created_at |-> now,
     updated_at |-> now]

\* profiles.user_id is NOT NULL and UNIQUE.
ProfileInsertable(p) ==
    /\ p.user_id # NoId
    /\ \A q \in profiles : q.user_id # p.user_id

\* INSERT INTO auth.users, with the AFTER INSERT trigger on_auth_user_created
\* in the same transaction: when the trigger's insert fails, nothing is kept.
CreateIdentity(id, full_name) ==
    /\ id \notin users
    /\ LET p == handle_new_user(id, full_name)
       IN IF ProfileInsertable(p)
          THEN /\ users' = users \cup {id}
               /\ profiles' = profiles \cup {p}
          ELSE UNCHANGED <<users, profiles>>
    /\ UNCHANGED <<leads, activities, nextLead, nextAct, now, client>>

\* DELETE FROM auth.users: profiles.user_id cascades, buyer_leads.created_by,
\* buyer_leads.assigned_to and lead_activities.user_id are set to NULL.
SetNullLead(l, id) ==
    [l EXCEPT !.created_by = IF @ = id THEN NoId ELSE @,
              !.assigned_to = IF @ = id THEN NoId ELSE @]
SetNullActivity(a, id) == [a EXCEPT !.user_id = IF @ = id THEN NoId ELSE @]

DeleteIdentity(id) ==
    /\ id \in users
    /\ users' = users \ {id}
    /\ profiles' = {p \in profiles : p.user_id # id}
    /\ leads' = {SetNullLead(l, id) : l \in leads}
    /\ activities' = {SetNullActivity(a, id) : a \in activities}
    /\ UNCHANGED <<nextLead, nextAct, now, client>>

\* SELECT * FROM profiles: the rows the caller gets.
SelectProfiles(c) == {p \in profiles : CanSelectProfile(c, p)}

\* UPDATE profiles SET .. WHERE user_id = target.  Rows the UPDATE policy
\* does not pass are skipped silently ("none"); the new row is checked
\* against the same expression (the policy has no WITH CHECK) and a new row
\* that does not pass is an error.
UpdatedProfile(p, payload) ==
    update_updated_at_column(
        [p EXCEPT !.full_name = Given(payload, "full_name", @),
                  !.role = Given(payload, "role", @),
                  !.updated_at = Given(payload, "updated_at", @)])
UpdateProfileRows(c, target) ==
    {p \in profiles :
        /\ p.user_id = target
        /\ CanSelectProfile(c, p)
        /\ CanUpdateProfile(c, p)}
UpdateProfileResult(c, target, payload) ==
    IF UpdateProfileRows(c, target) = {} THEN "none"
    ELSE IF \E p \in UpdateProfileRows(c, target) :
               ~CanUpdateProfile(c, UpdatedProfile(p, payload))
    THEN "denied"
    ELSE "ok"
UpdateProfile(c, target, payload) ==
    /\ IF UpdateProfileResult(c, target, payload) = "ok"
       THEN profiles' = (profiles \ UpdateProfileRows(c, target)) \cup
                {UpdatedProfile(p, payload) : p \in UpdateProfileRows(c, target)}
       ELSE UNCHANGED profiles
    /\ UNCHANGED <<users, leads, activities, nextLead, nextAct, now, client>>

\* INSERT INTO profiles (user_id, full_name, role) by a caller.
NewProfile(payload) ==
    [user_id |-> Given(payload, "user_id", NoId),
     full_name |-> Given(payload, "full_name", NullText),
     role |-> Given(payload, "role", "agent"),
     created_at |-> now,
     updated_at |-> Given(payload, "updated_at", now)]
InsertProfileResult(c, payload) ==
    IF ~CanInsertProfile(c, NewProfile(payload)) THEN "denied"
    ELSE IF \/ ~ProfileInsertable(NewProfile(payload))
            \/ NewProfile(payload).user_id \notin users
    THEN "invalid"
    ELSE "ok"
InsertProfile(c, payload) ==
    /\ IF InsertProfileResult(c, payload) = "ok"
       THEN profiles' = profiles \cup {NewProfile(payload)}
       ELSE UNCHANGED profiles
    /\ UNCHANGED <<users, leads, activities, nextLead, nextAct, now, client>>

\* DELETE FROM profiles WHERE user_id = target by a caller.
DeleteProfileRows(c, target) ==
    {p \in profiles :
        /\ p.user_id = target
        /\ CanSelectProfile(c, p)
        /\ CanDeleteProfile(c, p)}
DeleteProfileResult(c, target) ==
    IF DeleteProfileRows(c, target) = {} THEN "none" ELSE "ok"
DeleteProfile(c, target) ==
    /\ profiles' = profiles \ DeleteProfileRows(c, target)
    /\ UNCHANGED <<users, leads, activities, nextLead, nextAct, now, client>>

\* ---------------------------------------------------------- buyer_leads
\* "Admins can do everything with leads" (FOR ALL: its USING is also its
\* WITH CHECK)
LeadAllUsing(c, l) == Eq3(get_user_role(c), "admin", NullText)
\* Variant: a viewer reads no lead.
ViewersSeeNoLeads(c, l) == In3(get_user_role(c), {"admin", "agent"}, NullText)
\* "Agents can view all leads"
LeadSelectUsing(c, l) ==
    In3(get_user_role(c), {"admin", "agent", "viewer"}, NullText)
\* Variant: every role may insert leads.
AnyRoleInsertsLeads(c, l) ==
    In3(get_user_role(c), {"admin", "agent", "viewer"}, NullText)
\* "Agents can create leads"
LeadInsertCheck(c, l) == In3(get_user_role(c), {"admin", "agent"}, NullText)
\* Variant: the assignee is left out of the update policy.
OnlyCreatorUpdatesLeads(c, l) ==
    Or3(Eq3(get_user_role(c), "admin", NullText), Eq3(l.created_by, c, NoId))
\* "Agents can update leads they created or are assigned to" (no WITH
\* CHECK: the USING expression is applied to the new row as well)
LeadUpdateUsing(c, l) ==
    Or3(Or3(Eq3(get_user_role(c), "admin", NullText),
            Eq3(l.created_by, c, NoId)),
        Eq3(l.assigned_to, c, NoId))
\* Variant: the creator may delete its lead too.
CreatorDeletesLeads(c, l) ==
    Or3(Eq3(get_user_role(c), "admin", NullText), Eq3(l.created_by, c, NoId))
\* "Only admins can delete leads"
LeadDeleteUsing(c, l) == Eq3(get_user_role(c), "admin", NullText)

\* The policies of one command are permissive: a row passes when any does.
CanSelectLead(c, l) == Passes(Or3(LeadAllUsing(c, l), LeadSelectUsing(c, l)))
CanInsertLead(c, l) == Passes(Or3(LeadAllUsing(c, l), LeadInsertCheck(c, l)))
CanUpdateLead(c, l) == Passes(Or3(LeadAllUsing(c, l), LeadUpdateUsing(c, l)))
CanDeleteLead(c, l) == Passes(Or3(LeadAllUsing(c, l), LeadDeleteUsing(c, l)))

\* The enum types of the status and source columns, and the columns'
\* defaults.
lead_status == {"new", "contacted", "qualified", "not_qualified", "closed"}
lead_source ==
    {"website", "referral", "social_media", "cold_call", "email_campaign",
     "other"}
DefaultStatus == "new"
DefaultSource == "website"
\* A text given for an enum column must be one of the type's literals; the
\* columns are nullable.
LeadWellTyped(l) ==
    /\ l.status \in lead_status \cup {NullText}
    /\ l.source \in lead_source \cup {NullText}

\* priority INTEGER DEFAULT 3 CHECK (priority >= 1 AND priority <= 5)
DefaultPriority == 3
PriorityCheck(l) ==
    NotFalse(And3(Le3(1, l.priority, NullInt), Le3(l.priority, 5, NullInt)))
\* created_by and assigned_to reference auth.users(id).
LeadForeignKeys(l) ==
    /\ l.created_by \in users \cup {NoId}
    /\ l.assigned_to \in users \cup {NoId}
\* first_name, last_name, email TEXT NOT NULL
LeadNotNull(l) ==
    /\ l.first_name # NullText
    /\ l.last_name # NullText
    /\ l.email # NullText
LeadConstraints(l) == LeadNotNull(l) /\ PriorityCheck(l) /\ LeadForeignKeys(l)

\* The row an INSERT builds: the columns the payload names, the column
\* defaults for the others.
NewLead(payload) ==
    [id |-> nextLead,
     created_by |-> Given(payload, "created_by", NoId),
     assigned_to |-> Given(payload, "assigned_to", NoId),
     first_name |-> Given(payload, "first_name", NullText),
     last_name |-> Given(payload, "last_name", NullText),
     email |-> Given(payload, "email", NullText),
     preferred_areas |-> Given(payload, "preferred_areas", NullArray),
     status |-> Given(payload, "status", DefaultStatus),
     source |-> Given(payload, "source", DefaultSource),
     priority |-> Given(payload, "priority", DefaultPriority),
     notes |-> Given(payload, "notes", NullChars),
     created_at |-> now,
     updated_at |-> Given(payload, "updated_at", now)]

\* INSERT INTO buyer_leads (no RETURNING): the values are read into the
\* columns' types ("malformed" when one cannot be), then the policies' WITH
\* CHECK, then the table's constraints; any of them failing is an error and
\* stores nothing.
InsertLeadResult(c, payload) ==
    IF ~LeadWellTyped(NewLead(payload)) THEN "malformed"
    ELSE IF ~CanInsertLead(c, NewLead(payload)) THEN "denied"
    ELSE IF ~LeadConstraints(NewLead(payload)) THEN "invalid"
    ELSE "ok"
\* What the request does to the table.
StoreLead(c, payload) ==
    /\ InsertLeadResult(c, payload) = "ok" => nextLead <= capacity.leads
    /\ IF InsertLeadResult(c, payload) = "ok"
       THEN /\ leads' = leads \cup {NewLead(payload)}
            /\ nextLead' = nextLead + 1
       ELSE UNCHANGED <<leads, nextLead>>
InsertLead(c, payload) ==
    /\ StoreLead(c, payload)
    /\ UNCHANGED <<users, profiles, activities, nextAct, now, client>>

\* SELECT * FROM buyer_leads: the rows the caller gets.
SelectLeads(c) == {l \in leads : CanSelectLead(c, l)}
LeadIdsOf(rows) == {l.id : l \in rows}

\* Variant: a status that was changed before is kept.
FirstStatusStays(l, payload) ==
    update_updated_at_column(
        [l EXCEPT !.created_by = Given(payload, "created_by", @),
                  !.assigned_to = Given(payload, "assigned_to", @),
                  !.status = IF @ = DefaultStatus
                             THEN Given(payload, "status", @) ELSE @,
                  !.source = Given(payload, "source", @),
                  !.priority = Given(payload, "priority", @),
                  !.updated_at = Given(payload, "updated_at", @)])
\* The row an UPDATE writes: the payload's columns over the old row, then
\* the BEFORE UPDATE trigger.
UpdatedLead(l, payload) ==
    update_updated_at_column(
        [l EXCEPT !.created_by = Given(payload, "created_by", @),
                  !.assigned_to = Given(payload, "assigned_to", @),
                  !.status = Given(payload, "status", @),
                  !.source = Given(payload, "source", @),
                  !.priority = Given(payload, "priority", @),
                  !.updated_at = Given(payload, "updated_at", @)])

\* UPDATE buyer_leads SET .. WHERE id = ..: the statement reads the rows it
\* updates, so the SELECT policies apply to them too; rows that do not pass
\* are skipped silently ("none"), a new row that does not pass is an error.
UpdateLeadRows(c, id) ==
    {l \in leads :
        /\ l.id = id
        /\ CanSelectLead(c, l)
        /\ CanUpdateLead(c, l)}
UpdateLeadResult(c, id, payload) ==
    IF ~LeadWellTyped([status |-> Given(payload, "status", NullText),
                       source |-> Given(payload, "source", NullText)])
    THEN "malformed"
    ELSE IF UpdateLeadRows(c, id) = {} THEN "none"
    ELSE IF \E l \in UpdateLeadRows(c, id) :
               ~CanUpdateLead(c, UpdatedLead(l, payload))
    THEN "denied"
    ELSE IF \E l \in UpdateLeadRows(c, id) :
               ~LeadConstraints(UpdatedLead(l, payload))
    THEN "invalid"
    ELSE "ok"
UpdateLead(c, id, payload) ==
    /\ IF UpdateLeadResult(c, id, payload) = "ok"
       THEN leads' = (leads \ UpdateLeadRows(c, id)) \cup
                {UpdatedLead(l, payload) : l \in UpdateLeadRows(c, id)}
       ELSE UNCHANGED leads
    /\ UNCHANGED <<users, profiles, activities, nextLead, nextAct, now, client>>

\* DELETE FROM buyer_leads WHERE id = ..; lead_activities.lead_id cascades.
DeleteLeadRows(c, id) ==
    {l \in leads :
        /\ l.id = id
        /\ CanSelectLead(c, l)
        /\ CanDeleteLead(c, l)}
DeleteLeadResult(c, id) == IF DeleteLeadRows(c, id) = {} THEN "none" ELSE "ok"
CascadeActivities(rows) ==
    {a \in activities : \A l \in rows : a.lead_id # l.id}
DeleteLead(c, id) ==
    /\ leads' = leads \ DeleteLeadRows(c, id)
    /\ activities' = CascadeActivities(DeleteLeadRows(c, id))
    /\ UNCHANGED <<users, profiles, nextLead, nextAct, now, client>>

\* ------------------------------------------------------ lead_activities
\* EXISTS (SELECT 1 FROM buyer_leads bl WHERE bl.id = lead_id AND (..)): the
\* caller's own SELECT policies apply to the sub-select's buyer_leads.
LeadAccessible(c, lead_id) ==
    \E bl \in SelectLeads(c) :
        /\ Passes(Eq3(bl.id, lead_id, NoId))
        /\ Passes(Or3(Or3(Eq3(get_user_role(c), "admin", NullText),
                          Eq3(bl.created_by, c, NoId)),
                      Eq3(bl.assigned_to, c, NoId)))

\* "Users can view activities for leads they have access to"
ActivitySelectUsing(c, a) == IF LeadAccessible(c, a.lead_id) THEN T3 ELSE F3
\* Variant: whoever reads the lead may add an activity to it.
ReadersInsertActivities(c, a) ==
    IF \E bl \in SelectLeads(c) : bl.id = a.lead_id THEN T3 ELSE F3
\* "Users can create activities for accessible leads"
ActivityInsertCheck(c, a) == IF LeadAccessible(c, a.lead_id) THEN T3 ELSE F3
\* Variant: whoever reads an activity may delete it.
ReadersDeleteActivities(c, a) == IF LeadAccessible(c, a.lead_id) THEN T3 ELSE F3
\* No UPDATE and no DELETE policy exists for lead_activities.
ActivityUpdateUsing(c, a) == F3
ActivityDeleteUsing(c, a) == F3

CanSelectActivity(c, a) == Passes(ActivitySelectUsing(c, a))
CanInsertActivity(c, a) == Passes(ActivityInsertCheck(c, a))
CanUpdateActivity(c, a) == Passes(ActivityUpdateUsing(c, a))
CanDeleteActivity(c, a) == Passes(ActivityDeleteUsing(c, a))

\* lead_id, activity_type and description are NOT NULL; lead_id references
\* buyer_leads(id), user_id references auth.users(id).
ActivityConstraints(a) ==
    /\ a.lead_id # NoId
    /\ a.activity_type # NullText
    /\ a.description # NullText
    /\ \E l \in leads : l.id = a.lead_id
    /\ a.user_id \in users \cup {NoId}

DefaultMetadata == "{}"
NewActivity(payload) ==
    [id |-> nextAct,
     lead_id |-> Given(payload, "lead_id", NoId),
     user_id |-> Given(payload, "user_id", NoId),
     activity_type |-> Given(payload, "activity_type", NullText),
     description |-> Given(payload, "description", NullText),
     metadata |-> Given(payload, "metadata", DefaultMetadata),
     created_at |-> now]

\* INSERT INTO lead_activities (no RETURNING)
InsertActivityResult(c, payload) ==
    IF ~CanInsertActivity(c, NewActivity(payload)) THEN "denied"
    ELSE IF ~ActivityConstraints(NewActivity(payload)) THEN "invalid"
    ELSE "ok"
\* What the request does to the table.
StoreActivity(c, payload) ==
    /\ InsertActivityResult(c, payload) = "ok" => nextAct <= capacity.acts
    /\ IF InsertActivityResult(c, payload) = "ok"
       THEN /\ activities' = activities \cup {NewActivity(payload)}
            /\ nextAct' = nextAct + 1
       ELSE UNCHANGED <<activities, nextAct>>
InsertActivity(c, payload) ==
    /\ StoreActivity(c, payload)
    /\ UNCHANGED <<users, profiles, leads, nextLead, now, client>>

\* SELECT * FROM lead_activities: the rows the caller gets.
SelectActivities(c) == {a \in activities : CanSelectActivity(c, a)}

\* UPDATE lead_activities SET .. WHERE id = ..
UpdatedActivity(a, payload) ==
    [a EXCEPT !.lead_id = Given(payload, "lead_id", @),
              !.activity_type = Given(payload, "activity_type", @),
              !.description = Given(payload, "description", @),
              !.metadata = Given(payload, "metadata", @)]
UpdateActivityRows(c, id) ==
    {a \in activities :
        /\ a.id = id
        /\ CanSelectActivity(c, a)
        /\ CanUpdateActivity(c, a)}
UpdateActivityResult(c, id, payload) ==
    IF UpdateActivityRows(c, id) = {} THEN "none"
    ELSE IF \E a \in UpdateActivityRows(c, id) :
               ~CanUpdateActivity(c, UpdatedActivity(a, payload))
    THEN "denied"
    ELSE IF \E a \in UpdateActivityRows(c, id) :
               ~ActivityConstraints(UpdatedActivity(a, payload))
    THEN "invalid"
    ELSE "ok"
UpdateActivity(c, id, payload) ==
    /\ IF UpdateActivityResult(c, id, payload) = "ok"
       THEN activities' = (activities \ UpdateActivityRows(c, id)) \cup
                {UpdatedActivity(a, payload) : a \in UpdateActivityRows(c, id)}
       ELSE UNCHANGED activities
    /\ UNCHANGED <<users, profiles, leads, nextLead, nextAct, now, client>>

\* DELETE FROM lead_activities WHERE id = ..
DeleteActivityRows(c, id) ==
    {a \in activities :
        /\ a.id = id
        /\ CanSelectActivity(c, a)
        /\ CanDeleteActivity(c, a)}
DeleteActivityResult(c, id) ==
    IF DeleteActivityRows(c, id) = {} THEN "none" ELSE "ok"
DeleteActivity(c, id) ==
    /\ activities' = activities \ DeleteActivityRows(c, id)
    /\ UNCHANGED <<users, profiles, leads, nextLead, nextAct, now, client>>

\* ------------------------------------------------------------ lead form
\* The open lead forms; each is idle or between two requests of onSubmit.
Sessions == 1..MaxForms
Idle == [pc |-> "idle", user |-> NoId, email |-> NullText, lead |-> NoId]

\* z.string().email(), by its verdict on the addresses the inputs use.
ValidEmails == {"a@b.co"}
IsEmail(e) == e \in ValidEmails

\* leadSchema, on the fields modelled.
leadSchema(data) ==
    /\ data.first_name # ""
    /\ data.last_name # ""
    /\ IsEmail(data.email)
    /\ data.status \in lead_status
    /\ data.source \in lead_source
    /\ data.priority \in 1..5

\* JSON.stringify of a number in a request body: NaN becomes null.
NaN == -2000
JsonNumber(x) == IF x = NaN THEN NullInt ELSE x

\* leadData of onSubmit
FormLeadData(c, data) ==
    [first_name |-> data.first_name,
     last_name |-> data.last_name,
     email |-> data.email,
     status |-> data.status,
     source |-> data.source,
     priority |-> JsonNumber(data.priority),
     created_by |-> c]

\* onSubmit up to the insert of the lead: react-hook-form calls it only with
\* data that passes leadSchema, the button is disabled while it runs.
onSubmit(s, c, data) ==
    /\ forms[s] = Idle
    /\ c \in users
    /\ leadSchema(data)
    /\ StoreLead(c, FormLeadData(c, data))
    /\ forms' = [forms EXCEPT ![s] =
          IF InsertLeadResult(c, FormLeadData(c, data)) = "ok"
          THEN [pc |-> "select", user |-> c, email |-> data.email, lead |-> NoId]
          ELSE Idle]
    /\ UNCHANGED <<users, profiles, activities, nextAct, now, importer, download,
                   list, capacity, reader>>

\* .select('id').eq('email', ..).eq('created_by', ..).order('created_at',
\* desc).limit(1).single(): the newest matching row the caller may read,
\* any of them when several are equally new, null when there is none.
NewestLeads(c, email) ==
    LET rows == {l \in SelectLeads(c) : l.email = email /\ l.created_by = c}
    IN {l \in rows : \A m \in rows : m.created_at <= l.created_at}
onSubmitSelect(s) ==
    /\ forms[s].pc = "select"
    /\ IF NewestLeads(forms[s].user, forms[s].email) = {}
       THEN forms' = [forms EXCEPT ![s] = Idle]
       ELSE \E l \in NewestLeads(forms[s].user, forms[s].email) :
               forms' = [forms EXCEPT ![s].pc = "log", ![s].lead = l.id]
    /\ UNCHANGED <<users, profiles, leads, activities, nextLead, nextAct,
                   now, importer, download, list, capacity, reader>>

\* The activity onSubmit logs; the outcome of the insert is not looked at.
FormActivity(f) ==
    [lead_id |-> f.lead, user_id |-> f.user,
     activity_type |-> "lead_created", description |-> "Lead created"]
onSubmitLog(s) ==
    /\ forms[s].pc = "log"
    /\ StoreActivity(forms[s].user, FormActivity(forms[s]))
    /\ forms' = [forms EXCEPT ![s] = Idle]
    /\ UNCHANGED <<users, profiles, leads, nextLead, now, importer, download,
                   list, capacity, reader>>

\* ----------------------------------------------------------- CSV import
\* A cell of the priority column is a sequence of characters.
\* Texts that pass through a file are sequences of characters.
\* String.prototype.trim
WhiteSpace == {" ", "\t", "\n", "\r"}
RECURSIVE TrimStart(_)
TrimStart(t) ==
    IF t # <<>> /\ Head(t) \in WhiteSpace THEN TrimStart(Tail(t)) ELSE t
RECURSIVE TrimEnd(_)
TrimEnd(t) ==
    IF t # <<>> /\ t[Len(t)] \in WhiteSpace
    THEN TrimEnd(SubSeq(t, 1, Len(t) - 1))
    ELSE t
Trim(t) == TrimEnd(TrimStart(t))
\* String.prototype.includes, for one character
Includes(t, ch) == \E k \in 1..Len(t) : t[k] = ch
\* The pieces of t between the places in cuts, empty pieces too.
Pieces(t, cuts) ==
    LET Cut(j) ==
            IF j = 0 THEN 0
            ELSE IF j > Cardinality(cuts) THEN Len(t) + 1
            ELSE CHOOSE k \in cuts : Cardinality({i \in cuts : i < k}) = j - 1
    IN [j \in 1..(Cardinality(cuts) + 1) |->
            SubSeq(t, Cut(j - 1) + 1, Cut(j) - 1)]
\* String.prototype.split, at one character
Split(t, ch) == Pieces(t, {k \in 1..Len(t) : t[k] = ch})
\* Array.prototype.join
RECURSIVE Join(_, _)
Join(pieces, sep) ==
    IF pieces = <<>> THEN <<>>
    ELSE IF Len(pieces) = 1 THEN pieces[1]
    ELSE pieces[1] \o sep \o Join(Tail(pieces), sep)
\* Array.prototype.map(a => a.trim())
RECURSIVE TrimEach(_)
TrimEach(pieces) ==
    IF pieces = <<>> THEN <<>>
    ELSE <<Trim(Head(pieces))>> \o TrimEach(Tail(pieces))

\* parseCsvLine: a double quote switches inQuotes and is dropped; a comma
\* outside quotes ends the cell; every cell is trimmed.  inQuotes at a
\* character is the parity of the double quotes before it.
IsQuote(ch) == ch = "\""
NotQuote(ch) == ~IsQuote(ch)
\* Variant: no character is inside quotes.
NeverInQuotes(line, k) == FALSE
InQuotes(line, k) ==
    Cardinality({i \in 1..(k - 1) : IsQuote(line[i])}) % 2 = 1
CellEnds(line) ==
    {k \in 1..Len(line) : line[k] = "," /\ ~InQuotes(line, k)}
parseCsvLine(line) ==
    LET cells == Pieces(line, CellEnds(line))
    IN [k \in DOMAIN cells |-> Trim(SelectSeq(cells[k], NotQuote))]

\* parseCsvLine applied to the line at hand.
ReadLine ==
    /\ ~reader.read
    /\ reader' = [reader EXCEPT !.cells = parseCsvLine(reader.line),
                                !.read = TRUE]
    /\ UNCHANGED <<users, profiles, leads, activities, nextLead, nextAct, now,
                   forms, importer, download, list, capacity>>

Digits == <<"0", "1", "2", "3", "4", "5", "6", "7", "8", "9">>
IsDigit(ch) == \E d \in 1..10 : Digits[d] = ch
DigitValue(ch) == (CHOOSE d \in 1..10 : Digits[d] = ch) - 1
RECURSIVE LeadingDigits(_)
LeadingDigits(t) ==
    IF t = <<>> \/ ~IsDigit(Head(t)) THEN <<>>
    ELSE <<Head(t)>> \o LeadingDigits(Tail(t))
RECURSIVE Decimal(_)
Decimal(ds) ==
    IF ds = <<>> THEN 0
    ELSE 10 * Decimal(SubSeq(ds, 1, Len(ds) - 1)) + DigitValue(ds[Len(ds)])
\* parseInt of a trimmed cell: an optional sign, then the longest run of
\* decimal digits; whatever follows is ignored; NaN when there is no digit.
parseInt(t) ==
    LET signed == t # <<>> /\ Head(t) \in {"-", "+"}
        ds == LeadingDigits(IF signed THEN Tail(t) ELSE t)
    IN IF ds = <<>> THEN NaN
       ELSE IF signed /\ Head(t) = "-" THEN 0 - Decimal(ds) ELSE Decimal(ds)

\* The column names, character by character.
FIRST == <<"f", "i", "r", "s", "t", "_", "n", "a", "m", "e">>
LAST == <<"l", "a", "s", "t", "_", "n", "a", "m", "e">>
EMAIL == <<"e", "m", "a", "i", "l">>
STATUS == <<"s", "t", "a", "t", "u", "s">>
SOURCE == <<"s", "o", "u", "r", "c", "e">>
PRIORITY == <<"p", "r", "i", "o", "r", "i", "t", "y">>
AREAS ==
    <<"p", "r", "e", "f", "e", "r", "r", "e", "d", "_", "a", "r", "e", "a", "s">>
NOTES == <<"n", "o", "t", "e", "s">>
\* h.toLowerCase().replace(/\s+/g, '_') on a header cell, a sequence of
\* characters that parseCsvLine has trimmed.
Uppers ==
    <<"A", "B", "C", "D", "E", "F", "G", "H", "I", "J", "K", "L", "M",
      "N", "O", "P", "Q", "R", "S", "T", "U", "V", "W", "X", "Y", "Z">>
Lowers ==
    <<"a", "b", "c", "d", "e", "f", "g", "h", "i", "j", "k", "l", "m",
      "n", "o", "p", "q", "r", "s", "t", "u", "v", "w", "x", "y", "z">>
LowerOf ==
    [ch \in {Uppers[u] : u \in 1..26} |->
        Lowers[CHOOSE u \in 1..26 : Uppers[u] = ch]]
RECURSIVE toLowerCase(_)
toLowerCase(t) ==
    IF t = <<>> THEN <<>>
    ELSE <<IF Head(t) \in DOMAIN LowerOf THEN LowerOf[Head(t)] ELSE Head(t)>>
            \o toLowerCase(Tail(t))
IsSpace(ch) == ch \in {" ", "\t"}
RECURSIVE SkipSpaces(_)
SkipSpaces(t) ==
    IF t # <<>> /\ IsSpace(Head(t)) THEN SkipSpaces(Tail(t)) ELSE t
RECURSIVE SpacesToUnderscore(_)
SpacesToUnderscore(t) ==
    IF t = <<>> THEN <<>>
    ELSE IF IsSpace(Head(t))
         THEN <<"_">> \o SpacesToUnderscore(SkipSpaces(t))
         ELSE <<Head(t)>> \o SpacesToUnderscore(Tail(t))
\* Variant: the cells of the first line are compared as they were typed.
KeepHeaderAsTyped(h) == h
NormalizeHeader(h) == SpacesToUnderscore(toLowerCase(h))

\* The column names the import reads, as the characters they are made of.
Spelling ==
    [first_name |-> FIRST,
     last_name |-> LAST,
     email |-> EMAIL,
     status |-> STATUS,
     source |-> SOURCE,
     priority |-> PRIORITY,
     preferred_areas |-> AREAS,
     notes |-> NOTES]
\* headers: the names among the normalised cells of the first line.
Headers(cells) ==
    LET normalised == {NormalizeHeader(cells[k]) : k \in 1..Len(cells)}
    IN {n \in DOMAIN Spelling : Spelling[n] \in normalised}

requiredFields == {"first_name", "last_name", "email"}
\* Variant: a file of the first line alone is read.
FirstLineIsEnough(file) == file.lines < 1
\* lines.length < 2, over the non-empty lines of the file
TooFewLines(file) == file.lines < 2
\* missingFields.length > 0
MissingFields(headers) == requiredFields \ headers # {}

\* rowData: the cells under the file's headers; an empty cell, like a
\* column the header does not name, leaves its field undefined (written as
\* the empty text here).
RowData(headers, row) ==
    [first_name |-> IF "first_name" \in headers THEN row.first_name ELSE "",
     last_name |-> IF "last_name" \in headers THEN row.last_name ELSE "",
     email |-> IF "email" \in headers THEN row.email ELSE "",
     status |-> IF "status" \in headers THEN row.status ELSE "",
     source |-> IF "source" \in headers THEN row.source ELSE "",
     priority |-> IF "priority" \in headers THEN row.priority ELSE <<>>,
     preferred_areas |-> IF "preferred_areas" \in headers
                         THEN Given(row, "preferred_areas", <<>>) ELSE <<>>,
     notes |-> IF "notes" \in headers THEN Given(row, "notes", <<>>) ELSE <<>>]

\* csvImportSchema, on the fields modelled: the three required texts;
\* status, source and priority are optional texts of any content.
csvImportSchema(rowData) ==
    /\ rowData.first_name # ""
    /\ rowData.last_name # ""
    /\ rowData.email # "" /\ IsEmail(rowData.email)

\* leadData of handleFileImport
ImportLeadData(c, validatedData) ==
    [first_name |-> validatedData.first_name,
     last_name |-> validatedData.last_name,
     email |-> validatedData.email,
     preferred_areas |-> IF validatedData.preferred_areas # <<>>
                         THEN TrimEach(Split(validatedData.preferred_areas, ";"))
                         ELSE <<>>,
     status |-> IF validatedData.status # "" THEN validatedData.status
                ELSE "new",
     source |-> IF validatedData.source # "" THEN validatedData.source
                ELSE "other",
     priority |-> JsonNumber(IF validatedData.priority # <<>>
                             THEN parseInt(validatedData.priority)
                             ELSE 3),
     notes |-> IF validatedData.notes # <<>> THEN validatedData.notes
               ELSE NullChars,
     created_by |-> c]

\* The import page between two imports: importing false, no result shown.
\* line is the place of the last line read in the uploaded text.
\* Variant: the flag stays on when the page is not importing.
LeftImporting ==
    [importing |-> TRUE, progress |-> 0, user |-> NoId, headers |-> {},
     left |-> 0, total |-> 0, i |-> 0, line |-> 0, successCount |-> 0,
     errors |-> <<>>, result |-> <<>>]
NotImporting ==
    [importing |-> FALSE, progress |-> 0, user |-> NoId, headers |-> {},
     left |-> 0, total |-> 0, i |-> 0, line |-> 0, successCount |-> 0,
     errors |-> <<>>, result |-> <<>>]
\* ((i + 1) / dataLines.length) * 100, in whole percent
Progress(i, total) == ((i + 1) * 100) \div total

\* setImportResult, with the counts of the loop.
\* Variant: the total counts the first line too.
TallyOverAllLines(successCount, errors, total) ==
    <<[success |-> successCount, errors |-> errors, total |-> total + 1]>>
Tally(successCount, errors, total) ==
    <<[success |-> successCount, errors |-> errors, total |-> total]>>

\* handleFileImport up to the loop: the file input is disabled during an
\* import; the earlier result is cleared; a file with fewer than two
\* non-empty lines or without a required column ends the import at once.
\* file.blank is the number of blank lines before the header, file.lines
\* the number of non-empty lines, file.header the cells of the first of
\* them.
handleFileImport(c, file) ==
    /\ ~importer.importing
    /\ c \in users
    /\ LET headers == Headers(file.header)
       IN IF TooFewLines(file) \/ MissingFields(headers)
          THEN importer' = NotImporting
          ELSE IF file.lines = 1
          THEN importer' = [NotImporting EXCEPT !.result = Tally(0, <<>>, 0)]
          ELSE importer' = [NotImporting EXCEPT !.importing = TRUE,
                                                !.user = c,
                                                !.headers = headers,
                                                !.left = file.lines - 1,
                                                !.total = file.lines - 1,
                                                !.line = 1]
    /\ UNCHANGED <<users, profiles, leads, activities, nextLead, nextAct,
                   now, forms, download, list, capacity, reader>>

\* One pass of the loop over the data lines: validate the row, insert it,
\* count it or record the error; after the last line publish the result.
\* gap is the number of blank lines between the line read before and this
\* one.
\* Variant: every row counts as stored.
EveryRowCounts(c, rowData) == "ok"
RowOutcome(c, rowData) ==
    IF ~csvImportSchema(rowData) THEN "rejected"
    ELSE InsertLeadResult(c, ImportLeadData(c, rowData))
\* Variant: every error is reported at the first data line.
FirstDataRow(i) == 2
\* row: i + 2
ErrorRow(i) == i + 2
ImportRow(row, gap) ==
    /\ importer.importing
    /\ importer.left > 0
    /\ LET c == importer.user
           rowData == RowData(importer.headers, row)
           outcome == RowOutcome(c, rowData)
           successCount == importer.successCount + (IF outcome = "ok" THEN 1 ELSE 0)
           errors == IF outcome = "ok" THEN importer.errors
                     ELSE Append(importer.errors,
                                 [row |-> ErrorRow(importer.i),
                                  line |-> importer.line + gap + 1,
                                  error |-> outcome])
       IN /\ IF csvImportSchema(rowData)
             THEN StoreLead(c, ImportLeadData(c, rowData))
             ELSE UNCHANGED <<leads, nextLead>>
          /\ importer' =
                IF importer.left = 1
                THEN [NotImporting EXCEPT !.result =
                        Tally(successCount, errors, importer.total)]
                ELSE [importer EXCEPT !.progress =
                                          Progress(importer.i, importer.total),
                                      !.left = @ - 1, !.i = @ + 1,
                                      !.line = @ + gap + 1,
                                      !.successCount = successCount,
                                      !.errors = errors]
    /\ UNCHANGED <<users, profiles, activities, nextAct, now, forms, download,
                   list, capacity, reader>>

\* ------------------------------------------------------------- export
\* The characters of the names, addresses and literals kept as texts.
CharsOf ==
    ("Ann" :> <<"A", "n", "n">>) @@
    ("Lee" :> <<"L", "e", "e">>) @@
    ("a@b.co" :> <<"a", "@", "b", ".", "c", "o">>) @@
    ("bad" :> <<"b", "a", "d">>) @@
    ("new" :> <<"n", "e", "w">>) @@
    ("contacted" :> <<"c", "o", "n", "t", "a", "c", "t", "e", "d">>) @@
    ("qualified" :> <<"q", "u", "a", "l", "i", "f", "i", "e", "d">>) @@
    ("not_qualified" :> <<"n", "o", "t", "_", "q", "u", "a", "l", "i", "f", "i", "e", "d">>) @@
    ("closed" :> <<"c", "l", "o", "s", "e", "d">>) @@
    ("website" :> <<"w", "e", "b", "s", "i", "t", "e">>) @@
    ("referral" :> <<"r", "e", "f", "e", "r", "r", "a", "l">>) @@
    ("social_media" :> <<"s", "o", "c", "i", "a", "l", "_", "m", "e", "d", "i", "a">>) @@
    ("cold_call" :> <<"c", "o", "l", "d", "_", "c", "a", "l", "l">>) @@
    ("email_campaign" :> <<"e", "m", "a", "i", "l", "_", "c", "a", "m", "p", "a", "i", "g", "n">>) @@
    ("other" :> <<"o", "t", "h", "e", "r">>)
Unlisted == "?"
ValueChars(v) == IF v \in DOMAIN CharsOf THEN CharsOf[v] ELSE <<Unlisted>>
\* The text a cell holds: none, one of the texts above, or another one.
TextOf(cell) ==
    IF cell = <<>> THEN ""
    ELSE IF \E v \in DOMAIN CharsOf : CharsOf[v] = cell
    THEN CHOOSE v \in DOMAIN CharsOf : CharsOf[v] = cell
    ELSE Unlisted
\* String(n) of a number that is not negative
RECURSIVE NumberText(_)
NumberText(n) ==
    IF n < 10 THEN <<Digits[n + 1]>>
    ELSE NumberText(n \div 10) \o <<Digits[(n % 10) + 1]>>

\* headers of handleExport
exportHeaders ==
    <<"first_name", "last_name", "email", "phone", "budget_min", "budget_max",
      "preferred_areas", "property_type", "bedrooms", "bathrooms", "status",
      "source", "priority", "notes", "created_at">>
HeaderChars ==
    ("phone" :> <<"p", "h", "o", "n", "e">>) @@
    ("budget_min" :> <<"b", "u", "d", "g", "e", "t", "_", "m", "i", "n">>) @@
    ("budget_max" :> <<"b", "u", "d", "g", "e", "t", "_", "m", "a", "x">>) @@
    ("property_type" :> <<"p", "r", "o", "p", "e", "r", "t", "y", "_", "t", "y", "p", "e">>) @@
    ("bedrooms" :> <<"b", "e", "d", "r", "o", "o", "m", "s">>) @@
    ("bathrooms" :> <<"b", "a", "t", "h", "r", "o", "o", "m", "s">>) @@
    ("created_at" :> <<"c", "r", "e", "a", "t", "e", "d", "_", "a", "t">>)
HeaderText(header) ==
    IF header \in DOMAIN Spelling THEN Spelling[header] ELSE HeaderChars[header]

\* lead[header]: whether the row has a value there, whether it is a string,
\* and its characters.  Columns the model leaves out hold NULL.
TextColumns == {"first_name", "last_name", "email", "status", "source"}
IsNull(lead, header) ==
    \/ header \notin DOMAIN lead
    \/ header \in TextColumns /\ lead[header] = NullText
    \/ header = "notes" /\ lead[header] = NullChars
    \/ header = "preferred_areas" /\ lead[header] = NullArray
    \/ header \in {"priority", "created_at"} /\ lead[header] = NullInt
IsString(header) == header \in TextColumns \cup {"notes"}
ValueText(lead, header) ==
    IF header \in TextColumns THEN ValueChars(lead[header])
    ELSE IF header = "notes" THEN lead.notes
    ELSE NumberText(lead[header])
\* The cell of handleExport: the areas joined with ';', nothing for null,
\* a string with a comma between double quotes, any other value as it is.
ExportCell(lead, header) ==
    IF header = "preferred_areas" /\ ~IsNull(lead, header)
    THEN Join(lead.preferred_areas, <<";">>)
    ELSE IF IsNull(lead, header) THEN <<>>
    ELSE IF IsString(header) /\ Includes(ValueText(lead, header), ",")
    THEN <<"\"">> \o ValueText(lead, header) \o <<"\"">>
    ELSE ValueText(lead, header)
ExportLine(lead) ==
    Join([k \in 1..Len(exportHeaders) |-> ExportCell(lead, exportHeaders[k])],
         <<",">>)
csvContent(rows) ==
    Join(<<Join([k \in 1..Len(exportHeaders) |-> HeaderText(exportHeaders[k])],
                <<",">>)>>
            \o [k \in 1..Len(rows) |-> ExportLine(rows[k])],
         <<"\n">>)

\* .select('*').order('created_at', { ascending: false }): the rows the
\* caller can read, newest first, rows of one instant in any order.
Ordered(rows) ==
    {order \in [1..Cardinality(rows) -> rows] :
        /\ \A j, k \in DOMAIN order : j # k => order[j] # order[k]
        /\ \A j, k \in DOMAIN order :
              j < k => order[j].created_at >= order[k].created_at}

NoDataToast == <<[title |-> "No Data", variant |-> "destructive"]>>
ExportSuccessfulToast == <<[title |-> "Export Successful!", variant |-> "default"]>>
\* Variant: an export of no rows is an export like any other.
AlwaysSomethingToExport(rows) == FALSE
\* !leads || leads.length === 0
NothingToExport(rows) == rows = <<>>
\* handleExport: with no row to export a notice and no file; otherwise the
\* file is downloaded (text; leads and user record what it was made of).
handleExport(c) ==
    /\ c \in users
    /\ \E rows \in Ordered(SelectLeads(c)) :
          IF NothingToExport(rows)
          THEN download' = [download EXCEPT !.toast = NoDataToast]
          ELSE download' = [text |-> csvContent(rows), leads |-> rows,
                            user |-> c, toast |-> ExportSuccessfulToast]
    /\ UNCHANGED <<users, profiles, leads, activities, nextLead, nextAct, now,
                   forms, importer, list, capacity, reader>>

\* handleFileImport on a text: the lines that are not blank, the cells of
\* the first, and for each other line the cells under the names of the
\* first line (a later column of the same name wins, an empty cell leaves
\* the field undefined).
NonBlank(line) == Trim(line) # <<>>
LinesOf(text) == SelectSeq(Split(text, "\n"), NonBlank)
FileOf(text) ==
    [lines |-> Len(LinesOf(text)),
     header |-> IF LinesOf(text) = <<>> THEN <<>>
                ELSE parseCsvLine(LinesOf(text)[1])]
CellUnder(headerCells, values, name) ==
    LET ks == {k \in 1..Len(headerCells) :
                  /\ NormalizeHeader(headerCells[k]) = Spelling[name]
                  /\ k <= Len(values)
                  /\ values[k] # <<>>}
    IN IF ks = {} THEN <<>>
       ELSE values[CHOOSE k \in ks : \A j \in ks : j <= k]
RowOf(headerCells, line) ==
    LET values == parseCsvLine(line)
    IN [first_name |-> TextOf(CellUnder(headerCells, values, "first_name")),
        last_name |-> TextOf(CellUnder(headerCells, values, "last_name")),
        email |-> TextOf(CellUnder(headerCells, values, "email")),
        status |-> TextOf(CellUnder(headerCells, values, "status")),
        source |-> TextOf(CellUnder(headerCells, values, "source")),
        priority |-> CellUnder(headerCells, values, "priority"),
        preferred_areas |-> CellUnder(headerCells, values, "preferred_areas"),
        notes |-> CellUnder(headerCells, values, "notes")]
\* What the loop of handleFileImport makes of each data line of a text:
\* the outcome of the row and the lead it sends to the store.
ImportedRows(c, text) ==
    LET lines == LinesOf(text)
        file == FileOf(text)
        headers == Headers(file.header)
    IN [k \in 1..(Len(lines) - 1) |->
          LET rowData == RowData(headers, RowOf(file.header, lines[k + 1]))
          IN [outcome |-> RowOutcome(c, rowData),
              leadData |-> ImportLeadData(c, rowData)]]

\* The clock behind now().
\* ----------------------------------------------------------- leads page
leadsPerPage == 10
DeletedToast == <<[title |-> "Success!", variant |-> "default"]>>
FetchErrorToast == <<[title |-> "Error", variant |-> "destructive"]>>

\* column ILIKE %term%
Contains(t, part) ==
    \E k \in 0..(Len(t) - Len(part)) : SubSeq(t, k + 1, k + Len(part)) = part
ILike(v, term) == Contains(toLowerCase(ValueChars(v)), toLowerCase(term))

\* The rows the query of fetchLeads matches in a store: those its user may
\* read, narrowed by the search term and the two filters that are set.
Matching(store, q) ==
    {l \in store :
        /\ CanSelectLead(q.user, l)
        /\ q.searchTerm # <<>> =>
              \/ ILike(l.first_name, q.searchTerm)
              \/ ILike(l.last_name, q.searchTerm)
              \/ ILike(l.email, q.searchTerm)
        /\ q.statusFilter # "all" => l.status = q.statusFilter
        /\ q.sourceFilter # "all" => l.source = q.sourceFilter}

\* Math.ceil(count / leadsPerPage)
PagesOf(count) == (count + leadsPerPage - 1) \div leadsPerPage
Smaller(a, b) == IF a < b THEN a ELSE b
Larger(a, b) == IF a < b THEN b ELSE a

\* fetchLeads for a page whose state is q, over a store: the page with
\* the rows of its range and the number of pages of the count. A range
\* that starts past the last row is answered with no row or with an
\* error, by the version of the server; on an error the page keeps its
\* rows and its number of pages.
fetchLeads(store, q) ==
    LET count == Cardinality(Matching(store, q))
        from == (q.currentPage - 1) * leadsPerPage
        fetched == [q EXCEPT !.rows = Smaller(leadsPerPage, Larger(0, count - from)),
                             !.totalPages = PagesOf(count)]
        failed == [q EXCEPT !.toast = FetchErrorToast]
    IN IF from > 0 /\ from >= count THEN {fetched, failed} ELSE {fetched}

\* The page is opened by a signed-in user: the effect fetches page 1.
OpenLeads(c) ==
    /\ c \in users
    /\ list' \in fetchLeads(leads, [ListClosed EXCEPT !.user = c])
    /\ UNCHANGED <<users, profiles, leads, activities, nextLead, nextAct, now,
                   forms, importer, download, capacity, reader>>

\* The pages the buttons of Pagination lead to: Previous, Next and the
\* numbered buttons around the current page; the buttons are shown when
\* rows are shown and there is more than one page.
PageButtons ==
    IF list.rows > 0 /\ list.totalPages > 1
    THEN {Larger(1, list.currentPage - 1),
          Smaller(list.totalPages, list.currentPage + 1)}
         \cup {p \in 1..list.totalPages :
                 /\ p > Larger(0, list.currentPage - 3)
                 /\ p <= list.currentPage + 2}
    ELSE {}
\* setCurrentPage from a button, and the effect's fetch.
setCurrentPage(p) ==
    /\ list.user # NoId
    /\ p \in PageButtons
    /\ list' \in fetchLeads(leads, [list EXCEPT !.currentPage = p])
    /\ UNCHANGED <<users, profiles, leads, activities, nextLead, nextAct, now,
                   forms, importer, download, capacity, reader>>

\* setSearchTerm, setStatusFilter, setSourceFilter from the filter card,
\* and the effect's fetch.
FilterFields == {"searchTerm", "statusFilter", "sourceFilter"}
setFilter(field, value) ==
    /\ list.user # NoId
    /\ field \in FilterFields
    /\ list' \in fetchLeads(leads, [list EXCEPT ![field] = value])
    /\ UNCHANGED <<users, profiles, leads, activities, nextLead, nextAct, now,
                   forms, importer, download, capacity, reader>>

resetFilters ==
    /\ list.user # NoId
    /\ list' \in fetchLeads(leads, [list EXCEPT !.searchTerm = <<>>,
                                                !.statusFilter = "all",
                                                !.sourceFilter = "all",
                                                !.currentPage = 1])
    /\ UNCHANGED <<users, profiles, leads, activities, nextLead, nextAct, now,
                   forms, importer, download, capacity, reader>>

\* deleteLead from the button of a row that is shown: the request, whose
\* only failure is an error of the store (a delete that the policies keep
\* from every row is none), the notice, and the fetch.
deleteLead(id) ==
    /\ list.user # NoId
    /\ list.rows > 0
    /\ leads' = leads \ DeleteLeadRows(list.user, id)
    /\ activities' = CascadeActivities(DeleteLeadRows(list.user, id))
    /\ list' \in fetchLeads(leads', [list EXCEPT !.toast = DeletedToast])
    /\ UNCHANGED <<users, profiles, nextLead, nextAct, now,
                   forms, importer, download, capacity, reader>>

Tick ==
    /\ now < MaxTime
    /\ now' = now + 1
    /\ UNCHANGED <<users, profiles, leads, activities, nextLead, nextAct, client>>

\* ----------------------------------------------------------------- Init
\* The store right after the migration: every table empty.
InitStore(size) ==
    /\ users = {}
    /\ profiles = {}
    /\ leads = {}
    /\ activities = {}
    /\ nextLead = 1
    /\ nextAct = 1
    /\ now = 0
    /\ forms = [s \in 1..size.forms |-> Idle]
    /\ importer = NotImporting
    /\ download = NothingDownloaded
    /\ list = ListClosed
    /\ capacity = size
InitOf(size) == InitStore(size) /\ reader = NoLine
Init == InitOf([leads |-> MaxLeads, acts |-> MaxActs, forms |-> MaxForms])

\* ------------------------------------------------ identities and profiles
Names == {NullText, "Ann"}
ProfileEdits == {[full_name |-> "Bob"]} \cup {[role |-> r] : r \in RoleValues}
ProfileInserts == {[user_id |-> u, full_name |-> "Eve", role |-> "admin"] : u \in Ids}

NextProfile ==
    \/ \E id \in Ids, n \in Names : CreateIdentity(id, n)
    \/ \E id \in Ids : DeleteIdentity(id)
    \/ \E c \in Callers, t \in Ids, e \in ProfileEdits : UpdateProfile(c, t, e)
    \/ \E c \in Callers, p \in ProfileInserts : InsertProfile(c, p)
    \/ \E c \in Callers, t \in Ids : DeleteProfile(c, t)

SpecProfile == Init /\ [][NextProfile]_vars

\* ------------------------------------------------- leads under the policies
\* Requests of every caller against buyer_leads, with identities coming,
\* going and changing role.
RoleEdits == {[role |-> r] : r \in RoleValues}
LeadEdits == {[assigned_to |-> v] : v \in Callers}
LeadInsert(c) ==
    [created_by |-> c, first_name |-> "Ann", last_name |-> "Lee", email |-> "a@b.co"]

NextLead ==
    \/ \E id \in Ids : CreateIdentity(id, NullText)
    \/ \E id \in Ids : DeleteIdentity(id)
    \/ \E c \in Ids, e \in RoleEdits : UpdateProfile(c, c, e)
    \/ \E c \in Callers : InsertLead(c, LeadInsert(c))
    \/ \E c \in Callers, id \in LeadIds, e \in LeadEdits : UpdateLead(c, id, e)
    \/ \E c \in Callers, id \in LeadIds : DeleteLead(c, id)

Spec == Init /\ [][NextLead]_vars

\* -------------------------------------------- activities under the policies
ActivityInserts(c) ==
    {[lead_id |-> l, user_id |-> c, activity_type |-> "lead_created",
      description |-> "Lead created"] : l \in LeadIds}
ActivityEdits == {[description |-> "edited"], [lead_id |-> 1]}

NextActivity ==
    \/ NextLead
    \/ \E c \in Callers : \E p \in ActivityInserts(c) : InsertActivity(c, p)
    \/ \E c \in Callers, id \in ActIds, e \in ActivityEdits : UpdateActivity(c, id, e)
    \/ \E c \in Callers, id \in ActIds : DeleteActivity(c, id)

SpecActivity == Init /\ [][NextActivity]_vars

\* -------------------------------------------------------- form and import
Alphabet == {"0", "3", "7", "a", "-"}
Cells == UNION {[1..n -> Alphabet] : n \in 0..MaxLen}
Rows ==
    [first_name : {"", "Ann"}, last_name : {"Lee"},
     email : {"a@b.co", "bad"}, status : {""}, source : {""},
     priority : Cells]
\* First lines: the names as they are, the names as a person writes them,
\* one without the email column, two whose email cell is not the name.
PlainHeader == <<FIRST, LAST, EMAIL, STATUS, SOURCE, PRIORITY>>
SpacedHeader ==
    <<<<"F", "i", "r", "s", "t", " ", "N", "a", "m", "e">>,
      <<"L", "A", "S", "T", " ", "\t", "N", "A", "M", "E">>,
      <<"E", "m", "a", "i", "l">>,
      <<"P", "r", "i", "o", "r", "i", "t", "y">>>>
NoEmailHeader == <<FIRST, LAST, PRIORITY>>
SplitEmailHeader == <<FIRST, LAST, <<"e", " ", "m", "a", "i", "l">>>>
JoinedNameHeader == <<<<"f", "i", "r", "s", "t", "n", "a", "m", "e">>, LAST, EMAIL>>
HeaderLines ==
    {PlainHeader, SpacedHeader, NoEmailHeader, SplitEmailHeader, JoinedNameHeader}
Files == [lines : 0..(MaxRows + 1), header : HeaderLines]
Gaps == 0..1
\* The files of the intake runs: the plain first line.
PlainFiles ==
    {f \in Files : f.header = PlainHeader}
FormInputs ==
    [first_name : {"Ann"}, last_name : {"Lee"},
     email : {"a@b.co", "bad"}, status : {"new", "bogus"},
     source : {"website"}, priority : 0..6]
PriorityEdits == {[priority |-> v] : v \in {0, 4, 6}}

NextIntake ==
    \/ \E id \in Ids : CreateIdentity(id, NullText)
    \/ \E c \in Ids, e \in RoleEdits : UpdateProfile(c, c, e)
    \/ \E s \in Sessions, c \in Ids, d \in FormInputs : onSubmit(s, c, d)
    \/ \E s \in Sessions : onSubmitSelect(s)
    \/ \E s \in Sessions : onSubmitLog(s)
    \/ \E c \in Ids, f \in PlainFiles : handleFileImport(c, f)
    \/ \E r \in Rows : ImportRow(r, 0)
    \/ \E c \in Callers, id \in LeadIds, e \in PriorityEdits : UpdateLead(c, id, e)

SpecIntake == Init /\ [][NextIntake]_vars

\* ------------------------------------------------- the enumerated columns
\* Imports whose rows name a status and a source, next to direct requests
\* that name them.
EnumRows ==
    {r \in [first_name : {"Ann"}, last_name : {"Lee"}, email : {"a@b.co"},
            status : {"contacted", "bogus"}, source : {"referral", "bogus"},
            priority : {<<>>}] : r.status = "contacted" \/ r.source = "referral"}
EnumTexts == {"closed", "Closed", NullText}
EnumInserts(c) ==
    {[created_by |-> c, first_name |-> "Ann", last_name |-> "Lee",
      email |-> "a@b.co", status |-> v] : v \in EnumTexts}
        \cup {[created_by |-> c, first_name |-> "Ann", last_name |-> "Lee",
      email |-> "a@b.co", source |-> "bogus"]}
EnumEdits ==
    {[status |-> v] : v \in EnumTexts}
        \cup {[source |-> "bogus"]}

NextEnums ==
    \/ \E id \in Ids : CreateIdentity(id, NullText)
    \/ \E c \in Ids, f \in PlainFiles : handleFileImport(c, f)
    \/ \E r \in EnumRows : ImportRow(r, 0)
    \/ \E c \in Callers : \E p \in EnumInserts(c) : InsertLead(c, p)
    \/ \E c \in Callers, id \in LeadIds, e \in EnumEdits : UpdateLead(c, id, e)

SpecEnums == Init /\ [][NextEnums]_vars

\* Updates under a running clock: edits of one column, edits that change
\* nothing, edits and inserts that carry a timestamp of their own.
Times == 0..MaxTime
ClockLeadInserts(c) ==
    {[created_by |-> c, first_name |-> "Ann", last_name |-> "Lee", email |-> "a@b.co"]}
        \cup {[created_by |-> c, first_name |-> "Ann", last_name |-> "Lee",
      email |-> "a@b.co", updated_at |-> t] : t \in Times}
ClockLeadEdits ==
    {[priority |-> DefaultPriority], [priority |-> 4]}
        \cup {[updated_at |-> t] : t \in Times}
ClockProfileEdits ==
    {[role |-> "agent"], [full_name |-> "Ann"]}
        \cup {[updated_at |-> t] : t \in Times}

NextClock ==
    \/ \E id \in Ids : CreateIdentity(id, NullText)
    \/ Tick
    \/ \E c \in Callers, target \in Ids, e \in ClockProfileEdits :
            UpdateProfile(c, target, e)
    \/ \E c \in Callers : \E p \in ClockLeadInserts(c) : InsertLead(c, p)
    \/ \E c \in Callers, id \in LeadIds, e \in ClockLeadEdits : UpdateLead(c, id, e)

SpecClock == Init /\ [][NextClock]_vars

\* ------------------------------------------------------------ the import
\* Imports of files with blank lines and hand-written first lines, by
\* callers of every role.
ImportRows ==
    [first_name : {"", "Ann"}, last_name : {"Lee"}, email : {"a@b.co"},
     status : {"", "bogus"}, source : {""}, priority : {<<>>}]

NextImport ==
    \/ \E id \in Ids : CreateIdentity(id, NullText)
    \/ \E c \in Ids, f \in Files : handleFileImport(c, f)
    \/ \E r \in ImportRows, g \in Gaps : ImportRow(r, g)

SpecImport == Init /\ [][NextImport]_vars

\* The same imports when every insert request returns: the loop, once
\* started, goes on to its next row.
ImportGoesOn == \E r \in ImportRows, g \in Gaps : ImportRow(r, g)
SpecImportFair == SpecImport /\ WF_vars(ImportGoesOn)

\* Imports of rows that give a status, a source or a priority and of rows
\* that leave them out.
DefaultRows ==
    [first_name : {"Ann"}, last_name : {"Lee"}, email : {"a@b.co"},
     status : {"", "closed"}, source : {"", "referral"},
     priority : {<<>>, <<"4">>}]

NextDefaults ==
    \/ \E id \in Ids : CreateIdentity(id, NullText)
    \/ \E c \in Ids, f \in Files : handleFileImport(c, f)
    \/ \E r \in DefaultRows : ImportRow(r, 0)

SpecDefaults == Init /\ [][NextDefaults]_vars

\* Exports of leads as the form and the import store them: with and
\* without notes and areas, with a comma or a double quote in a note, with
\* a comma in the name of an area.
NoteTexts ==
    {NullChars, <<"o", "k">>, <<"a", ",", "b">>, <<"\"", "a", "\"">>}
AreaLists ==
    {<<>>, <<<<"N">>>>, <<<<"N">>, <<"E">>>>, <<<<"N", ",", " ", "E">>>>}
RoundTripInserts(c) ==
    [created_by : {c}, first_name : {"Ann"}, last_name : {"Lee"},
     email : {"a@b.co"}, preferred_areas : AreaLists, status : {"contacted"},
     source : {"website", "other"}, priority : {4}, notes : NoteTexts]

NextRoundTrip ==
    \/ \E id \in Ids : CreateIdentity(id, NullText)
    \/ \E c \in Ids, e \in RoleEdits : UpdateProfile(c, c, e)
    \/ \E c \in Ids : \E p \in RoundTripInserts(c) : InsertLead(c, p)
    \/ \E c \in Ids : handleExport(c)

SpecRoundTrip == Init /\ [][NextRoundTrip]_vars

\* Exports by callers of every role, before and after a lead is stored.
NextExport ==
    \/ \E id \in Ids : CreateIdentity(id, NullText)
    \/ \E c \in Ids, e \in RoleEdits : UpdateProfile(c, c, e)
    \/ \E c \in Ids : InsertLead(c, LeadInsert(c))
    \/ \E c \in Ids : handleExport(c)

SpecExport == Init /\ [][NextExport]_vars

\* The leads page over a store of up to MaxListed leads, all stored by the
\* first identity before the page is opened; the page's user, an agent or
\* an admin, turns pages, filters, clears the filters and deletes the
\* newest lead.
ListRoleEdits == {[role |-> "admin"], [role |-> "agent"]}
ListFilters ==
    {<<"statusFilter", "all">>, <<"statusFilter", "contacted">>,
     <<"searchTerm", <<"a", "N">>>>, <<"sourceFilter", "website">>}
NewestId == IF leads = {} THEN NoId
            ELSE CHOOSE id \in LeadIdsOf(leads) : \A l \in leads : l.id <= id
InitList == InitOf([leads |-> MaxListed, acts |-> MaxActs, forms |-> MaxForms])
NextList ==
    \/ \E id \in Ids : CreateIdentity(id, NullText)
    \/ \E c \in Ids, e \in ListRoleEdits : UpdateProfile(c, c, e)
    \/ list.user = NoId /\ InsertLead(1, LeadInsert(1))
    \/ \E c \in Ids : list.user = NoId /\ OpenLeads(c)
    \/ \E p \in 1..PagesOf(MaxListed) : setCurrentPage(p)
    \/ \E f \in ListFilters : setFilter(f[1], f[2])
    \/ resetFilters
    \/ deleteLead(NewestId)

SpecList == InitList /\ [][NextList]_vars

\* Two identities update one lead, each with its own values: the first
\* stores the lead, assigns it to the second, and writes status and
\* priority; the second writes status and source.
FirstEdits == {[assigned_to |-> 2], [status |-> "contacted", priority |-> 1]}
SecondEdits == {[status |-> "qualified", source |-> "referral"]}
EditsOf(c) == IF c = 1 THEN FirstEdits ELSE SecondEdits
NextConcurrent ==
    \/ \E id \in Ids : CreateIdentity(id, NullText)
    \/ \E c \in Ids, e \in RoleEdits : UpdateProfile(c, c, e)
    \/ InsertLead(1, LeadInsert(1))
    \/ \E c \in Ids, id \in LeadIds : \E e \in EditsOf(c) : UpdateLead(c, id, e)

SpecConcurrent == Init /\ [][NextConcurrent]_vars

\* parseCsvLine on every line of up to MaxLine characters among a comma, a
\* double quote, a blank and a letter.
LineAlphabet == {",", "\"", " ", "a"}
CsvLines == UNION {[1..n -> LineAlphabet] : n \in 0..MaxLine}
InitParse ==
    /\ InitStore([leads |-> MaxLeads, acts |-> MaxActs, forms |-> MaxForms])
    /\ \E line \in CsvLines : reader = [NoLine EXCEPT !.line = line]
NextParse == ReadLine

SpecParse == InitParse /\ [][NextParse]_vars

\* The lead form open in MaxTabs tabs, with room for a lead and an
\* activity for each; every submission is of the same lead, and time
\* passes between the requests.
TabInput ==
    [first_name |-> "Ann", last_name |-> "Lee", email |-> "a@b.co",
     status |-> "new", source |-> "website", priority |-> 3]
InitTabs == InitOf([leads |-> MaxTabs, acts |-> MaxTabs, forms |-> MaxTabs])
NextTabs ==
    \/ \E id \in Ids : CreateIdentity(id, NullText)
    \/ \E s \in 1..MaxTabs, c \in Ids : onSubmit(s, c, TabInput)
    \/ \E s \in 1..MaxTabs : onSubmitSelect(s)
    \/ \E s \in 1..MaxTabs : onSubmitLog(s)
    \/ Tick

SpecTabs == InitTabs /\ [][NextTabs]_vars

\* ==================================================================== claims
\* The policies let a request through: it is neither skipped nor refused
\* for its caller (it may still fail a constraint of the table).
Allowed(result) == result \in {"ok", "invalid"}

IsCreator(c, l) == c # NoId /\ l.created_by = c
IsAssignee(c, l) == c # NoId /\ l.assigned_to = c
AdminCreatorOrAssignee(c, l) ==
    get_user_role(c) = "admin" \/ IsCreator(c, l) \/ IsAssignee(c, l)

\* C1 (as stated): in every reachable state a caller whose role is viewer
\* reads every lead, and each of its inserts, updates and deletes of a lead
\* is refused, whoever the lead's creator and assignee are.
C1_ViewerReadOnly ==
    \A c \in Callers : get_user_role(c) = "viewer" =>
        /\ SelectLeads(c) = leads
        /\ ~Allowed(InsertLeadResult(c, LeadInsert(c)))
        /\ \A id \in LeadIds, e \in LeadEdits : ~Allowed(UpdateLeadResult(c, id, e))
        /\ \A id \in LeadIds : DeleteLeadResult(c, id) # "ok"

\* C2 (as stated): an update of a lead is allowed exactly when the caller is
\* admin, or created the row, or is its current assignee.
C2_Original ==
    \A c \in Callers, e \in LeadEdits : \A l \in leads :
        Allowed(UpdateLeadResult(c, l.id, e)) <=> AdminCreatorOrAssignee(c, l)

\* C2 (amended): an update of a lead selected by id is allowed exactly when
\* the caller may read the row (role admin, agent or viewer) and is admin,
\* creator or assignee of the row both as it was and as the update leaves
\* it; a lead whose creator and assignee are both null is updated only by
\* an admin.
C2_UpdateRule ==
    \A c \in Callers, e \in LeadEdits : \A l \in leads :
        /\ Allowed(UpdateLeadResult(c, l.id, e)) <=>
              /\ get_user_role(c) \in app_role
              /\ AdminCreatorOrAssignee(c, l)
              /\ AdminCreatorOrAssignee(c, UpdatedLead(l, e))
        /\ (l.created_by = NoId /\ l.assigned_to = NoId
                /\ Allowed(UpdateLeadResult(c, l.id, e)))
              => get_user_role(c) = "admin"
\* An agent's lead that an update has assigned to somebody else.
C2_Witness ==
    \E l \in leads :
        /\ l.assigned_to \notin {NoId, l.created_by}
        /\ get_user_role(l.created_by) = "agent"
        /\ get_user_role(l.assigned_to) # "admin"

\* C3: a lead leaves the store only in a delete by a caller whose role is
\* admin; no other caller's delete removes it, and every stored lead is read
\* by every caller whose role is admin, agent or viewer.
C3_Step ==
    /\ \A l \in leads : l.id \notin LeadIdsOf(leads') =>
          \E c \in Callers : get_user_role(c) = "admin" /\ DeleteLead(c, l.id)
    /\ \A c \in Callers : get_user_role(c) # "admin" =>
          \A id \in LeadIds : DeleteLeadResult(c, id) # "ok"
    /\ \A c \in Callers : get_user_role(c) \in app_role => SelectLeads(c) = leads
C3_OnlyAdminDeletes == [][C3_Step]_vars
\* A lead was stored and an admin's delete has removed it.
C3_Witness ==
    /\ nextLead > 1
    /\ leads = {}
    /\ \E c \in Ids : get_user_role(c) = "admin"

\* C4: an insert of a lead is allowed only to a caller whose role is admin
\* or agent; a caller without a profile, or whose profile has no role,
\* resolves to no role and its read, insert and delete of leads are refused.
NoRole(c) == \A p \in profiles : p.user_id = c => p.role = NullText
C4_InsertNeedsRole ==
    \A c \in Callers :
        /\ Allowed(InsertLeadResult(c, LeadInsert(c)))
              => get_user_role(c) \in {"admin", "agent"}
        /\ NoRole(c) =>
              /\ get_user_role(c) = NullText
              /\ SelectLeads(c) = {}
              /\ ~Allowed(InsertLeadResult(c, LeadInsert(c)))
              /\ \A id \in LeadIds : DeleteLeadResult(c, id) # "ok"
\* A lead is stored while its creator's profile has no role and another
\* identity has no profile at all.
C4_Witness ==
    /\ \E l \in leads : \E p \in profiles :
          p.user_id = l.created_by /\ p.role = NullText
    /\ \E c \in Ids : \A p \in profiles : p.user_id # c

\* C5 (as stated): a caller reads an activity exactly when it may read the
\* parent lead, that is whenever its role is admin, agent or viewer.
C5_ActivityRead ==
    \A c \in Callers : \A a \in activities :
        /\ a \in SelectActivities(c) <=> a.lead_id \in LeadIdsOf(SelectLeads(c))
        /\ a \in SelectActivities(c) <=> get_user_role(c) \in app_role

\* C6 (as stated): an insert of an activity is allowed exactly when the
\* parent lead exists and the caller is admin, its creator or its assignee.
C6_Original ==
    \A c \in Callers : \A p \in ActivityInserts(c) :
        Allowed(InsertActivityResult(c, p)) <=>
            \E l \in leads : l.id = p.lead_id /\ AdminCreatorOrAssignee(c, l)

\* C6 (amended): an insert of an activity is allowed exactly when the
\* parent lead exists, the caller may read it (role admin, agent or viewer)
\* and the caller is admin, the lead's creator or its assignee.
C6_InsertRule ==
    \A c \in Callers : \A p \in ActivityInserts(c) :
        Allowed(InsertActivityResult(c, p)) <=>
            \E l \in leads :
                /\ l.id = p.lead_id
                /\ get_user_role(c) \in app_role
                /\ AdminCreatorOrAssignee(c, l)
\* An activity stored by a caller who is not admin, and one stored lead's
\* creator whose profile has no role.
C6_Witness ==
    /\ \E a \in activities :
          a.user_id # NoId /\ get_user_role(a.user_id) \in {"agent", "viewer"}
    /\ \E l \in leads : \E p \in profiles :
          p.user_id = l.created_by /\ p.role = NullText

\* C7: activities are append-only.  No caller's update or delete of an
\* activity goes through; from one state to the next a stored activity
\* keeps its lead, type, description and metadata unless its parent lead is
\* deleted; every stored activity names a stored lead.
SameEntry(a, b) ==
    /\ a.id = b.id
    /\ a.lead_id = b.lead_id
    /\ a.activity_type = b.activity_type
    /\ a.description = b.description
    /\ a.metadata = b.metadata
C7_Step ==
    /\ \A c \in Callers, id \in ActIds :
          /\ \A e \in ActivityEdits : UpdateActivityResult(c, id, e) # "ok"
          /\ DeleteActivityResult(c, id) # "ok"
    /\ \A a \in activities :
          \/ \E b \in activities' : SameEntry(a, b)
          \/ /\ a.lead_id \notin LeadIdsOf(leads')
             /\ \A b \in activities' : b.id # a.id
    /\ \A b \in activities' : b.lead_id \in LeadIdsOf(leads')
C7_AppendOnly == [][C7_Step]_vars
\* An activity was stored and is gone, with its parent lead.
C7_Witness == nextAct > 1 /\ activities = {} /\ leads = {} /\ nextLead > 1

\* C8: every signed-in caller reads every profile; an update of a profile
\* goes through only for the identity the row belongs to; no caller's
\* insert or delete of a profile goes through; a profile changes only in an
\* update by its own identity and appears or disappears only with its
\* identity.
C8_Step ==
    /\ \A c \in Ids : SelectProfiles(c) = profiles
    /\ \A c \in Callers : \A p \in profiles : \A e \in ProfileEdits :
          UpdateProfileResult(c, p.user_id, e) = "ok" => c = p.user_id
    /\ \A c \in Callers, i \in ProfileInserts : ~Allowed(InsertProfileResult(c, i))
    /\ \A c \in Callers, t \in Ids : DeleteProfileResult(c, t) # "ok"
    /\ \A p \in profiles \ profiles' :
          \/ \E e \in ProfileEdits : UpdateProfile(p.user_id, p.user_id, e)
          \/ DeleteIdentity(p.user_id)
    /\ \A q \in profiles' \ profiles :
          \/ \E e \in ProfileEdits : UpdateProfile(q.user_id, q.user_id, e)
          \/ \E n \in Names : CreateIdentity(q.user_id, n)
C8_OwnProfileOnly == [][C8_Step]_vars
\* One identity has renamed itself and changed its role beside another
\* identity's untouched profile.
C8_Witness ==
    \E p, q \in profiles :
        /\ p.full_name = "Bob" /\ p.role = "viewer"
        /\ q.user_id # p.user_id /\ q.full_name = "Ann" /\ q.role = "agent"

\* C9: a step that creates an identity stores exactly one profile for it,
\* with role agent and the supplied name (the default literal when none is
\* supplied), keeps every other profile, and creates no identity without
\* its profile; no identity ever has two profiles.
ProfilesOf(rows, id) == {p \in rows : p.user_id = id}
C9_Step ==
    /\ \A id \in users' \ users :
          /\ \E n \in Names :
                /\ CreateIdentity(id, n)
                /\ \A p \in ProfilesOf(profiles', id) :
                      /\ p.role = "agent"
                      /\ p.full_name = (IF n = NullText THEN "User" ELSE n)
          /\ Cardinality(ProfilesOf(profiles', id)) = 1
          /\ profiles \subseteq profiles'
    /\ \A id \in Ids : Cardinality(ProfilesOf(profiles', id)) <= 1
    /\ \A p \in profiles' : p.user_id \in users'
C9_Provisioning == [][C9_Step]_vars
\* An identity created with a name and one created without, next to a
\* profile that has been edited since.
C9_Witness ==
    \E p, q \in profiles :
        /\ p.full_name = "Ann" /\ p.role = "agent"
        /\ q.full_name = "User" /\ q.role = "admin"

\* C10 (as stated): every stored lead has a priority from 1 to 5, whether
\* it came from the form, from an import row or from an update.
C10_PriorityRange == \A l \in leads : l.priority \in 1..5

\* C11 (as stated): every stored lead has a status and a source among the
\* literals of their enumerations.
C11_Original ==
    \A l \in leads : l.status \in lead_status /\ l.source \in lead_source

\* C11, the part that holds: every stored lead has a status among the five
\* literals or
\* none (null) and a source among the six literals or none; an insert or an
\* update that gives another literal is refused; an import row that gives
\* one adds no lead and is recorded as one error of the row; a lead that an
\* import row adds has a status and a source among the literals.
BadLiteral(payload) ==
    \/ Given(payload, "status", NullText) \notin lead_status \cup {NullText, ""}
    \/ Given(payload, "source", NullText) \notin lead_source \cup {NullText, ""}
ErrorsOf(imp) == IF imp.result = <<>> THEN imp.errors ELSE imp.result[1].errors
C11_Step ==
    /\ \A l \in leads' :
          /\ l.status \in lead_status \cup {NullText}
          /\ l.source \in lead_source \cup {NullText}
    /\ \A c \in Callers : \A p \in EnumInserts(c) :
          BadLiteral(p) => InsertLeadResult(c, p) = "malformed"
    /\ \A c \in Callers, id \in LeadIds, e \in EnumEdits :
          BadLiteral(e) => UpdateLeadResult(c, id, e) = "malformed"
    /\ \A r \in EnumRows : ImportRow(r, 0) =>
          /\ BadLiteral(RowData(importer.headers, r)) =>
                /\ leads' = leads
                /\ Len(ErrorsOf(importer')) = Len(importer.errors) + 1
          /\ \A l \in leads' \ leads :
                l.status \in lead_status /\ l.source \in lead_source
C11_EnumsOrNull == [][C11_Step]_vars
\* An import has reported a row for its literal and has stored another row
\* with the status it gave.
C11_Witness ==
    /\ importer.result # <<>>
    /\ \E k \in 1..Len(ErrorsOf(importer)) : ErrorsOf(importer)[k].error = "malformed"
    /\ \E l \in leads : l.status = "contacted" /\ l.source = "referral"

\* C12: every committed update of a lead or a profile sets updated_at to
\* the time of the update, never earlier than the value it replaces,
\* whatever columns the update names, with or without a change, with or
\* without an updated_at of its own.
Rewritten(old, new) == new.updated_at = now /\ new.updated_at >= old.updated_at
C12_StepOriginal ==
    /\ \A c \in Callers, id \in LeadIds, e \in ClockLeadEdits :
          UpdateLead(c, id, e) /\ UpdateLeadResult(c, id, e) = "ok" =>
              \A l \in UpdateLeadRows(c, id) : Rewritten(l, UpdatedLead(l, e))
    /\ \A c \in Callers, target \in Ids, e \in ClockProfileEdits :
          UpdateProfile(c, target, e) /\ UpdateProfileResult(c, target, e) = "ok" =>
              \A p \in UpdateProfileRows(c, target) :
                  Rewritten(p, UpdatedProfile(p, e))
C12_Original == [][C12_StepOriginal]_vars

\* C12 (amended): every committed update of a lead or a profile leaves each
\* row it wrote with updated_at equal to the clock at the update, whatever
\* columns the update names, with or without a change, with or without an
\* updated_at of its own; the value is not earlier than the one it
\* replaces unless that one was ahead of the clock.  Rows the update did
\* not write keep their updated_at.  (An update that leaves the table as
\* it was has written the clock's value over an equal one.)
Stamped(rows, written, rows2) ==
    /\ \A r \in rows2 \ rows : r.updated_at = now
    /\ \A r \in written : \E r2 \in rows2 :
          /\ r2.updated_at = now
          /\ r.updated_at <= now => r2.updated_at >= r.updated_at
    /\ rows \ written \subseteq rows2
C12_Step ==
    /\ leads' # leads =>
          \A c \in Callers, id \in LeadIds, e \in ClockLeadEdits :
              UpdateLeadResult(c, id, e) = "ok" /\ UpdateLead(c, id, e) =>
                  /\ Stamped(leads, UpdateLeadRows(c, id), leads')
                  /\ \A l2 \in leads' : \E l \in leads : l.id = l2.id
    /\ profiles' # profiles =>
          \A c \in Callers, target \in Ids, e \in ClockProfileEdits :
              UpdateProfileResult(c, target, e) = "ok" /\ UpdateProfile(c, target, e) =>
                  Stamped(profiles, UpdateProfileRows(c, target), profiles')
C12_Rewritten == [][C12_Step]_vars
\* A lead whose update named its own, later, updated_at carries the clock's
\* value, and so does a profile after an update that changed nothing.
C12_Witness ==
    /\ now = 1
    /\ \E l \in leads : l.created_at = 0 /\ l.updated_at = 1
    /\ \E p \in profiles : p.created_at = 0 /\ p.updated_at = 1 /\ p.full_name = DefaultName

\* C13: an import of a file with fewer than two non-empty lines fails as a
\* whole: nothing is inserted, the stored leads are as before, no tally is
\* shown and no row is waiting to be read.
C13_Step ==
    ~importer.importing =>
        \A c \in Ids, f \in Files :
            f.lines < 2 /\ handleFileImport(c, f) =>
                /\ leads' = leads
                /\ nextLead' = nextLead
                /\ importer' = NotImporting
C13_TooFewLines == [][C13_Step]_vars
\* Leads of an earlier import are stored, its tally is gone and no import
\* is running: a later file was refused.
C13_Witness ==
    /\ leads # {}
    /\ ~importer.importing
    /\ importer.result = <<>>

\* C14: a file whose first line, lower-cased and with each run of
\* whitespace turned into an underscore, lacks first_name, last_name or
\* email is refused as a whole before any row is read (the leads are as
\* before, no tally); a first line that spells the names in other letter
\* case or with whitespace for the underscore is read.  (Stated by what
\* the request cannot do: refuse and change something, or read a complete
\* first line and not start on the rows.)
C14_Lacking == {NoEmailHeader, SplitEmailHeader, JoinedNameHeader}
C14_Complete == {PlainHeader, SpacedHeader}
C14_Step ==
    ~importer.importing /\ importer' # importer =>
        \A c \in Ids, f \in Files :
            /\ f.header \in C14_Lacking
                  /\ (leads' # leads \/ nextLead' # nextLead
                                      \/ importer' # NotImporting) =>
                  ~handleFileImport(c, f)
            /\ f.header \in C14_Complete /\ f.lines >= 2
                  /\ ~(/\ importer'.importing
                        /\ importer'.left = f.lines - 1
                        /\ requiredFields \subseteq importer'.headers) =>
                  ~handleFileImport(c, f)
C14_RequiredColumns == [][C14_Step]_vars
\* The file with the first line "First Name,LAST \tNAME,Email,Priority" is
\* being read, after an import that stored a lead.
C14_Witness ==
    /\ importer.importing
    /\ importer.headers = {"first_name", "last_name", "email", "priority"}
    /\ leads # {}

\* C15: no failing row ends an import.  Each step of the loop attempts one
\* row: it adds one to the successes and one lead to the store, or one
\* error to the list and nothing to the store; unless the row was the last
\* the import goes on with one row fewer left; after the last row the
\* tally is published with success + number of errors = total, the number
\* of non-empty data lines of the file.
SuccessOf(imp) ==
    IF imp.result = <<>> THEN imp.successCount ELSE imp.result[1].success
C15_Step ==
    /\ importer.importing /\ importer' # importer =>
          /\ SuccessOf(importer') + Len(ErrorsOf(importer')) =
                importer.successCount + Len(importer.errors) + 1
          /\ SuccessOf(importer') \in
                {importer.successCount, importer.successCount + 1}
          /\ SuccessOf(importer') = importer.successCount + 1 =>
                /\ Cardinality(leads') = Cardinality(leads) + 1
                /\ ErrorsOf(importer') = importer.errors
          /\ SuccessOf(importer') = importer.successCount =>
                /\ leads' = leads
                /\ SubSeq(ErrorsOf(importer'), 1, Len(importer.errors)) =
                      importer.errors
          /\ importer.left > 1 =>
                /\ importer'.importing
                /\ importer'.left = importer.left - 1
                /\ importer'.total = importer.total
          /\ importer.left = 1 =>
                /\ ~importer'.importing
                /\ importer'.result # <<>>
                /\ importer'.result[1].total = importer.total
                /\ importer'.result[1].success + Len(importer'.result[1].errors) =
                      importer'.result[1].total
    /\ ~importer.importing /\ importer'.importing =>
          \A c \in Ids, f \in Files :
              importer'.user = c /\ importer'.total = f.lines - 1
                               /\ handleFileImport(c, f) =>
                  /\ importer'.total = f.lines - 1
                  /\ importer'.left = importer'.total
                  /\ importer'.successCount = 0
                  /\ importer'.errors = <<>>
C15_BatchContinues == [][C15_Step]_vars
\* A finished import of two rows: one stored, one refused.
C15_Witness ==
    /\ importer.result # <<>>
    /\ importer.result[1].total = 2
    /\ importer.result[1].success = 1
    /\ Len(importer.result[1].errors) = 1
    /\ Cardinality(leads) = 1

\* C16 (as stated): the row recorded with an error is the line of the row
\* in the uploaded file, the first line being line 1, blank lines counted.
C16_LineNumbers ==
    \A k \in 1..Len(ErrorsOf(importer)) :
        ErrorsOf(importer)[k].row = ErrorsOf(importer)[k].line

\* C17: the rows are read one after the other in the order of the file.
\* A step of the loop records the outcome of the row at the loop's index
\* and moves the index on by one; the errors are listed under ascending
\* row numbers; the tally appears only with the step that reads the last
\* row, and counts every row.
Ascending(errors) ==
    \A j, k \in 1..Len(errors) : j < k => errors[j].row < errors[k].row
C17_Step ==
    /\ Ascending(ErrorsOf(importer'))
    /\ importer.importing /\ importer' # importer =>
          /\ importer'.importing => importer'.i = importer.i + 1
          /\ Len(ErrorsOf(importer')) > Len(importer.errors) =>
                ErrorsOf(importer')[Len(ErrorsOf(importer'))].row = importer.i + 2
          /\ SuccessOf(importer') + Len(ErrorsOf(importer')) = importer.i + 1
    /\ importer'.result # <<>> /\ importer'.result # importer.result =>
          /\ importer.importing
          /\ importer.left = 1
          /\ importer.i + 1 = importer.total
C17_Sequential == [][C17_Step]_vars
\* A finished import of two rows, both refused, listed in file order.
C17_Witness ==
    /\ importer.result # <<>>
    /\ Len(importer.result[1].errors) = 2
    /\ importer.result[1].errors[1].row = 2
    /\ importer.result[1].errors[2].row = 3

\* C18 (as stated): a lead that an import row adds has the row's status,
\* source and priority where the row gives them, and status new, source
\* website, priority 3 where it does not.
C18_Step ==
    importer.importing /\ leads' # leads =>
        \A r \in DefaultRows :
            ImportRow(r, 0) =>
                LET rowData == RowData(importer.headers, r)
                IN \A l \in leads' \ leads :
                      /\ l.status = IF rowData.status = "" THEN "new"
                                    ELSE rowData.status
                      /\ l.source = IF rowData.source = "" THEN "website"
                                    ELSE rowData.source
                      /\ l.priority = IF rowData.priority = <<>> THEN 3
                                      ELSE 4
C18_Defaults == [][C18_Step]_vars

\* C19 (as stated): when a caller who may insert leads exports the N leads
\* they can read and imports the text of the export, the import counts N
\* successes and each lead it sends to the store has the first_name,
\* last_name, email, preferred_areas, status, source, priority and notes of
\* the exported lead of the same line.
SameFields(a, b) ==
    /\ a.first_name = b.first_name
    /\ a.last_name = b.last_name
    /\ a.email = b.email
    /\ a.preferred_areas = b.preferred_areas
    /\ a.status = b.status
    /\ a.source = b.source
    /\ a.priority = b.priority
    /\ a.notes = b.notes
MayInsert(c) ==
    \E p \in profiles : p.user_id = c /\ p.role \in {"admin", "agent"}
C19_RoundTrip ==
    download.text # <<>> /\ MayInsert(download.user) =>
        LET file == FileOf(download.text)
            rows == ImportedRows(download.user, download.text)
        IN /\ ~TooFewLines(file)
           /\ ~MissingFields(Headers(file.header))
           /\ Len(rows) = Len(download.leads)
           /\ \A k \in 1..Len(rows) :
                 /\ rows[k].outcome = "ok"
                 /\ SameFields(rows[k].leadData, download.leads[k])

\* C20 (as stated): an export by a caller who can read no lead ends with a
\* file of no data rows and with a notice that is not an error's.
C20_StepOriginal ==
    download' # download =>
        \A c \in Ids :
            SelectLeads(c) = {} /\ handleExport(c) =>
                /\ download'.text # <<>>
                /\ FileOf(download'.text).lines = 1
                /\ \A k \in 1..Len(download'.toast) :
                      download'.toast[k].variant # "destructive"
C20_Original == [][C20_StepOriginal]_vars

\* C20 (amended): an export by a caller who can read no lead makes no file:
\* what was downloaded before stays as it was, the notice "No Data" is
\* shown in the style of an error, and nothing stored changes.
C20_Step ==
    download' # download =>
        \A c \in Ids :
            SelectLeads(c) = {} /\ handleExport(c) =>
                /\ download'.text = download.text
                /\ download'.leads = download.leads
                /\ download'.user = download.user
                /\ download'.toast = NoDataToast
                /\ leads' = leads
C20_NoData == [][C20_Step]_vars
\* The notice is shown to a caller who cannot read the lead that is stored;
\* nothing has been downloaded.
C20_Witness ==
    /\ download.toast = NoDataToast
    /\ download.text = <<>>
    /\ leads # {}
    /\ \E c \in users : SelectLeads(c) = {}

\* C21 (as stated): the exported text is one line of the 15 column names
\* in their order, then one line per exported lead with its 15 values in
\* that order: nothing for a null or absent value, the areas joined with
\* ';', and double quotes around every value that contains a comma.
Rendered(lead, header) ==
    LET raw == IF IsNull(lead, header) THEN <<>>
               ELSE IF header = "preferred_areas"
               THEN Join(lead.preferred_areas, <<";">>)
               ELSE ValueText(lead, header)
    IN IF Includes(raw, ",") THEN <<"\"">> \o raw \o <<"\"">> ELSE raw
C21_Format ==
    download.text # <<>> =>
        LET lines == Split(download.text, "\n")
        IN /\ Len(download.leads) = 1 => Len(lines) = 2
           /\ lines[1] =
                 Join([k \in 1..15 |-> HeaderText(exportHeaders[k])], <<",">>)
           /\ Len(exportHeaders) = 15
           /\ Len(lines) = 1 + Len(download.leads) =>
                 \A n \in 1..Len(download.leads) :
                     lines[n + 1] =
                         Join([k \in 1..15 |->
                                 Rendered(download.leads[n], exportHeaders[k])],
                              <<",">>)

\* C22: an export writes one data line for each lead its caller may read
\* when it runs (every lead for an admin, an agent or a viewer) and none
\* for any other lead; a caller without a role exports no lead data, no
\* file is made for it.
MayRead(c) == {l \in leads : get_user_role(c) \in app_role}
C22_Step ==
    download' # download =>
        \A c \in Ids :
            handleExport(c) =>
                IF MayRead(c) = {}
                THEN download'.text = download.text
                ELSE LET lines == Split(download'.text, "\n")
                     IN /\ download'.user = c
                        /\ Len(lines) = 1 + Cardinality(MayRead(c))
                        /\ Len(download'.leads) = Cardinality(MayRead(c))
                        /\ \A l \in MayRead(c) :
                              \E n \in 1..Len(download'.leads) :
                                  /\ download'.leads[n] = l
                                  /\ lines[n + 1] = ExportLine(l)
                        /\ \A n \in 1..Len(download'.leads) :
                              download'.leads[n] \in MayRead(c)
C22_ExportsWhatIsReadable == [][C22_Step]_vars
\* A viewer has exported the one lead that is stored.
C22_Witness ==
    /\ download.text # <<>>
    /\ get_user_role(download.user) = "viewer"
    /\ Len(download.leads) = 1
    /\ download.leads[1] \in leads

\* C23 (as stated): a delete of a lead that the policies deny surfaces as an
\* authorization failure: the delete action of the leads page never
\* reports success while the lead it was aimed at is still in the store.
C23_Step ==
    list' # list =>
        \A id \in LeadIdsOf(leads) :
            deleteLead(id) /\ list'.toast = DeletedToast =>
                id \notin LeadIdsOf(leads')
C23_DenialSurfaces == [][C23_Step]_vars

\* C29 (as stated): whatever pages were selected, filters changed or
\* cleared and leads deleted, once the page has fetched its rows again the
\* current page is between 1 and the larger of 1 and the number of pages
\* of the matching leads, ten to a page.
C29_Step ==
    list' # list =>
        /\ list'.currentPage >= 1
        /\ list'.currentPage
              <= Larger(1, PagesOf(Cardinality(Matching(leads', list'))))
C29_PageInRange == [][C29_Step]_vars

\* C24: updates of one lead by two callers who may update it are both
\* committed, none is refused or found in conflict because of the other:
\* the row takes, for every field an update writes, that update's value,
\* whatever was written before (the last write wins), and after one
\* caller's update is committed the other caller's update, of values the
\* columns accept, is accepted.
MayUpdate(c, l, e) ==
    /\ get_user_role(c) \in app_role
    /\ AdminCreatorOrAssignee(c, l)
    /\ AdminCreatorOrAssignee(c, UpdatedLead(l, e))
    /\ LeadConstraints(UpdatedLead(l, e))
C24_Step ==
    leads' # leads =>
        \A c \in Ids, id \in LeadIds : \A e \in EditsOf(c) :
            UpdateLead(c, id, e) =>
                \A l \in leads' : l.id = id =>
                    /\ \A f \in DOMAIN e : l[f] = e[f]
                    /\ \A d \in Ids \ {c} : \A e2 \in EditsOf(d) :
                          MayUpdate(d, l, e2) =>
                              (UpdateLeadResult(d, id, e2) = "ok")'
C24_LastWriteWins == [][C24_Step]_vars
\* Both identities have written the lead's status; the second wrote the
\* source first and the first wrote the status last.
C24_Witness ==
    \E l \in leads :
        /\ l.created_by = 1
        /\ l.assigned_to = 2
        /\ l.source = "referral"
        /\ l.status = "contacted"
        /\ l.priority = 1

\* C25 (as stated): no operation that the policies permit to a caller who
\* is not admin changes that caller's own role: of its own profile the
\* owner changes the name only, so an agent or a viewer never becomes
\* admin.
C25_Step ==
    profiles' # profiles =>
        \A c \in Ids : get_user_role(c) # "admin" =>
            \A e \in ProfileEdits :
                UpdateProfile(c, c, e) => (get_user_role(c))' = get_user_role(c)
C25_RoleStays == [][C25_Step]_vars

\* C26: parseCsvLine ends a field at exactly the commas that are outside
\* double quotes, a flag that every double quote turns over: the result has
\* one field more than the line has such commas, no field holds a double
\* quote or begins or ends with white space, the commas inside quotes stay
\* in the values, and nothing else of the line is lost.
RECURSIVE CommasOutside(_, _)
CommasOutside(line, inQuotes) ==
    IF line = <<>> THEN 0
    ELSE IF Head(line) = "\"" THEN CommasOutside(Tail(line), ~inQuotes)
    ELSE IF Head(line) = "," /\ ~inQuotes
    THEN 1 + CommasOutside(Tail(line), inQuotes)
    ELSE CommasOutside(Tail(line), inQuotes)
CountOf(t, ch) == Cardinality({k \in 1..Len(t) : t[k] = ch})
IsInk(ch) == ch \notin WhiteSpace /\ ch # "\""
C26_Fields ==
    reader.read =>
        LET cells == reader.cells
            line == reader.line
            outside == CommasOutside(line, FALSE)
        IN /\ Len(cells) = outside + 1
           /\ \A k \in 1..Len(cells) :
                 /\ ~Includes(cells[k], "\"")
                 /\ cells[k] # <<>> =>
                       /\ cells[k][1] \notin WhiteSpace
                       /\ cells[k][Len(cells[k])] \notin WhiteSpace
           /\ CountOf(Join(cells, <<>>), ",") = CountOf(line, ",") - outside
           /\ SelectSeq(Join(cells, <<",">>), IsInk) = SelectSeq(line, IsInk)
\* A line whose quoted field holds a comma, beside a second field, has
\* been read.
C26_Witness ==
    /\ reader.read
    /\ Len(reader.cells) = 2
    /\ Includes(reader.cells[1], ",")
    /\ CountOf(reader.line, "\"") = 2

\* C28: an import adds as many leads as it counts successes: each pass of
\* the loop adds one lead exactly when the success count goes up by one,
\* the lead added has the importing identity as its creator and no
\* assignee, a row recorded as an error adds no lead, and no pass, failing
\* or last, removes a lead stored before (nothing is rolled back).
C28_Step ==
    importer' # importer =>
        /\ leads \subseteq leads'
        /\ Cardinality(leads') - Cardinality(leads) =
              (IF importer.importing
               THEN SuccessOf(importer') - importer.successCount ELSE 0)
        /\ \A l \in leads' \ leads :
              /\ l.created_by = importer.user
              /\ l.created_by \in users
              /\ l.assigned_to = NoId
        /\ Len(ErrorsOf(importer')) > Len(importer.errors) /\ importer.importing
              => leads' = leads
        /\ importer.importing /\ ~importer'.importing =>
              /\ importer'.result # <<>>
              /\ importer'.result[1].success = SuccessOf(importer')
C28_AddedIsCounted == [][C28_Step]_vars
\* An import has finished whose first row was stored and whose second row
\* failed: the lead of the first row is still there.
C28_Witness ==
    /\ ~importer.importing
    /\ importer.result # <<>>
    /\ importer.result[1].success = 1
    /\ Len(importer.result[1].errors) = 1
    /\ importer.result[1].errors[1].row = 3
    /\ \E l \in leads : l.created_by \in users /\ l.assigned_to = NoId

\* C27 (as stated): once no submission is under way, every lead stored
\* through the lead form has exactly one activity of type lead_created
\* that refers to it and names the user who submitted it, also when two
\* submissions of the same email by the same user were interleaved.
CreatedActivities(l) ==
    {a \in activities :
        /\ a.lead_id = l.id
        /\ a.activity_type = "lead_created"
        /\ a.user_id = l.created_by}
C27_OneActivityEach ==
    (\A s \in DOMAIN forms : forms[s] = Idle) =>
        \A l \in leads : Cardinality(CreatedActivities(l)) = 1

\* C30: every import that has started ends, given that each insert request
\* returns: the page leaves the importing state with the progress back at
\* 0, after a failure of the whole file or with the tally published, and a
\* further import can start; while the page is importing no second import
\* can be started from it.
ImportOver == ~importer.importing /\ importer.progress = 0
C30_Terminates ==
    /\ importer.importing ~> ImportOver
    /\ [](importer.importing =>
            ~ENABLED (\E c \in Ids, f \in Files : handleFileImport(c, f)))
    /\ [](ImportOver /\ users # {} =>
            ENABLED (\E c \in Ids, f \in Files : handleFileImport(c, f)))
    /\ [][importer.importing /\ ~importer'.importing =>
            importer' = [NotImporting EXCEPT !.result = importer'.result]]_vars
\* An import of two rows is over, its tally is shown.
C30_Witness ==
    /\ ImportOver
    /\ importer.result # <<>>
    /\ importer.result[1].total = 2
    /\ importer.result[1].success + Len(importer.result[1].errors) = 2

====
